---------------------------- MODULE Spec2Model ----------------------------
(***************************************************************************)
(* A model of the dispatch/session layer of agent_service: the result      *)
(* extractor, the keyword router, the termination handler, the instruction *)
(* update chain and the request path that runs a chat on a worker thread.  *)
(*                                                                         *)
(* Text is modelled as a sequence of one-character strings, so that        *)
(* str.replace, str.strip, str.endswith, str.lower and the "in" operator   *)
(* are computed character by character, as Python computes them.           *)
(***************************************************************************)
EXTENDS Integers, Sequences, FiniteSets, TLC

VARIABLES
    result,          \* extractor: the value handed to the Result Extractor
    final_result,    \* extractor: what it returned
    routing,         \* router: the last _determine_best_agent call
    round_count,     \* TerminationHandler.round_count
    max_rounds,      \* TerminationHandler.max_rounds
    check_solved,    \* TerminationHandler.check_solved
    th_call,         \* the last TerminationHandler call and what it returned
    agent,           \* personalization: the expert object being updated
    update,          \* personalization: the outcome of the last update
    sessions,        \* request path: one record per request
    team_cache,      \* request path: the lru_cache of each _get_cached_team
    chat_history,    \* history: the chat_history of a result / group_chat.messages
    hist_call,       \* history: the last operation on it and the history before
    selector_agents, \* SelectorGroupChat.agents, as the sequence of their names
    select_call,      \* the last call of the subject selector
    create_call, \* create_team: the context given, the experts' update mechanisms, the roster built
    error_log, \* handle_errors: what each wrapped handler call did and what the caller got
    llm_class, \* LLMConfig: the class attributes
    llm_call, \* LLMConfig / BaseAgent: the last call, its arguments and what it returned
    py_call, \* run_python: the call, its arguments, what it did and what it returned
    gc_call, \* _build_pattern and _run_group_chat: the call, its inputs and how the engine was started
    tm_call, \* is_termination_msg of create_team and of _run_group_chat: the message and the verdicts
    pu_agent, \* the expert of a personalization updater: its update mechanisms and its instruction text
    pu_call, \* update_with_context: the context, the number of runs and the text after the first run
    monitor, \* the fields of the ConversationMonitor
    monitor_call \* the last call of the monitor and the number of updates

extVars  == <<result, final_result>>
rtVars   == <<routing>>
thVars   == <<round_count, max_rounds, check_solved, th_call>>
pzVars   == <<agent, update>>
sessVars == <<sessions, team_cache>>
histVars == <<chat_history, hist_call>>
selVars  == <<selector_agents, select_call>>
ctVars == <<create_call>>
errVars == <<error_log>>
llmVars == <<llm_class, llm_call>>
pyVars == <<py_call>>
gcVars == <<gc_call>>
tmVars == <<tm_call>>
puVars == <<pu_agent, pu_call>>
cmVars == <<monitor, monitor_call>>
vars     == <<result, final_result, routing, round_count, max_rounds,
              check_solved, th_call, agent, update, sessions, team_cache,
              chat_history, hist_call, selector_agents, select_call,
              create_call,
              error_log,
              llm_class, llm_call,
              py_call,
              gc_call,
              tm_call,
              pu_agent, pu_call,
              monitor, monitor_call>>

-----------------------------------------------------------------------------
(* Python str operations on sequences of characters.                       *)

Whitespace == {" ", "\t", "\n"}

UpperChars == <<"A","B","C","D","E","F","G","H","I","J","K","L","M","N","O",
                "P","Q","R","S","T","U","V","W","X","Y","Z","Ế","Ú","À">>
LowerChars == <<"a","b","c","d","e","f","g","h","i","j","k","l","m","n","o",
                "p","q","r","s","t","u","v","w","x","y","z","ế","ú","à">>

UpperToLower ==
    [c \in {UpperChars[i] : i \in 1..Len(UpperChars)} |->
        LowerChars[CHOOSE i \in 1..Len(UpperChars) : UpperChars[i] = c]]

LowerChar(c) == IF c \in DOMAIN UpperToLower THEN UpperToLower[c] ELSE c

\* str.lower()
Lower(s) == [i \in 1..Len(s) |-> LowerChar(s[i])]

\* s.startswith(p)
StartsWith(s, p) == Len(p) <= Len(s) /\ SubSeq(s, 1, Len(p)) = p

\* s.endswith(p)
EndsWith(s, p) ==
    Len(p) <= Len(s) /\ SubSeq(s, Len(s) - Len(p) + 1, Len(s)) = p

\* p in s
Contains(s, p) ==
    \E i \in 1..(Len(s) - Len(p) + 1) : SubSeq(s, i, i + Len(p) - 1) = p

RECURSIVE LStrip(_)
LStrip(s) ==
    IF s # <<>> /\ Head(s) \in Whitespace THEN LStrip(Tail(s)) ELSE s

RECURSIVE RStrip(_)
\* str.rstrip()
RStrip(s) ==
    IF s # <<>> /\ s[Len(s)] \in Whitespace
    THEN RStrip(SubSeq(s, 1, Len(s) - 1))
    ELSE s

\* str.strip()
Strip(s) == RStrip(LStrip(s))

RECURSIVE Replace(_, _)
\* s.replace(old, ""): one left-to-right pass over non-overlapping matches
Replace(s, old) ==
    IF Len(s) < Len(old) THEN s
    ELSE IF SubSeq(s, 1, Len(old)) = old
         THEN Replace(SubSeq(s, Len(old) + 1, Len(s)), old)
         ELSE <<Head(s)>> \o Replace(Tail(s), old)

-----------------------------------------------------------------------------
(* Literals of the source.                                                 *)

TERMINATE == <<"T","E","R","M","I","N","A","T","E">>
KET_THUC  == <<"K","Ế","T"," ","T","H","Ú","C">>
HOAN_THANH == <<"h","o","à","n"," ","t","h","à","n","h">>
COMPLETED == <<"c","o","m","p","l","e","t","e","d">>

FALLBACK_MESSAGE ==
    <<"X","i","n"," ","l","ỗ","i",","," ","t","ô","i"," ","k","h","ô","n","g",
      " ","t","h","ể"," ","x","ử"," ","l","ý"," ","y","ê","u"," ","c","ầ","u",
      " ","n","à","y","."," ","V","u","i"," ","l","ò","n","g"," ","t","h","ử",
      " ","l","ạ","i"," ","v","ớ","i"," ","c","â","u"," ","h","ỏ","i"," ","c",
      "ụ"," ","t","h","ể"," ","h","ơ","n",".">>

\* len(content.strip()) > 10
MinContentLen == 10
\* len(final_result.strip()) < 5
MinResultLen == 5

-----------------------------------------------------------------------------
(* Python values as the extractor sees them.  A value is a record          *)
(* [tag, text]: tag "absent" (no such attribute or key), "None", "str",    *)
(* or "int" (a truthy value that is not a string); text is the string, or  *)
(* what str() gives.                                                       *)

Absent    == [tag |-> "absent", text |-> <<>>]
PyNone    == [tag |-> "None", text |-> <<"N","o","n","e">>]
PyStr(s)  == [tag |-> "str", text |-> s]
PyInt     == [tag |-> "int", text |-> <<"1","2","3","4","5","6","7","8","9","0","1">>]

\* bool(v)
Truthy(v) ==
    CASE v.tag = "str" -> v.text # <<>>
      [] v.tag = "int" -> TRUE
      [] OTHER -> FALSE

\* A message of a chat history: a dict with a content entry, or not a dict.
DictMsg(c) == [isdict |-> TRUE, content |-> c]
NonDictMsg == [isdict |-> FALSE, content |-> Absent]

\* msg.get("content", "")
GetContent(msg) == IF msg.content.tag = "absent" THEN PyStr(<<>>) ELSE msg.content

\* A result value: a plain string, an object (with optional summary and
\* chat_history attributes, and the text str() gives), or no value yet.
StrResult(s) ==
    [kind |-> "str", text |-> s, summary |-> Absent,
     has_history |-> FALSE, chat_history |-> <<>>]
ObjResult(sm, hh, h, repr) ==
    [kind |-> "obj", text |-> repr, summary |-> sm,
     has_history |-> hh, chat_history |-> h]
NoResult ==
    [kind |-> "none", text |-> <<>>, summary |-> Absent,
     has_history |-> FALSE, chat_history |-> <<>>]

\* The outcome of examining one message in the backward scan.
ScanOne(msg) ==
    IF ~msg.isdict THEN "skip"
    ELSE LET content == GetContent(msg) IN
         IF ~Truthy(content) THEN "skip"
         ELSE IF content.tag # "str" THEN "raise"     \* int has no strip()
         ELSE IF ~StartsWith(Strip(content.text), <<"[">>)
                 /\ Len(Strip(content.text)) > MinContentLen
              THEN "take"
              ELSE "skip"

RECURSIVE ScanHistory(_, _)
\* for msg in reversed(chat_history): ... ; i is the index examined next.
\* Gives the content chosen, "raise" or "none".
ScanHistory(h, i) ==
    IF i = 0 THEN [out |-> "none", text |-> <<>>]
    ELSE CASE ScanOne(h[i]) = "take"  -> [out |-> "take", text |-> h[i].content.text]
           [] ScanOne(h[i]) = "raise" -> [out |-> "raise", text |-> <<>>]
           [] OTHER -> ScanHistory(h, i - 1)

\* str(chat_history[-1].get("content", "")), or "raise" when the last
\* message has no get()
LastContent(h) ==
    IF ~h[Len(h)].isdict THEN [out |-> "raise", text |-> <<>>]
    ELSE [out |-> "take", text |-> GetContent(h[Len(h)]).text]

\* a choice that looks at the history before the summary
ChooseTextHistoryFirst(r) ==
    IF r.kind = "str" THEN r.text
    ELSE IF r.has_history /\ r.chat_history # <<>> THEN
         LET scan == ScanHistory(r.chat_history, Len(r.chat_history)) IN
         CASE scan.out = "take"  -> scan.text
           [] scan.out = "raise" -> r.text
           [] OTHER ->
                LET last == LastContent(r.chat_history) IN
                IF last.out = "raise" THEN r.text ELSE last.text
    ELSE IF r.summary.tag # "absent" /\ Truthy(r.summary) THEN r.summary.text
    ELSE r.text

\* The text chosen before sentinels are stripped.
ChooseText(r) ==
    IF r.kind = "str" THEN r.text
    ELSE IF r.summary.tag # "absent" /\ Truthy(r.summary) THEN r.summary.text
    ELSE IF r.has_history /\ r.chat_history # <<>> THEN
         LET scan == ScanHistory(r.chat_history, Len(r.chat_history)) IN
         CASE scan.out = "take"  -> scan.text
           [] scan.out = "raise" -> r.text
           [] OTHER ->
                LET last == LastContent(r.chat_history) IN
                IF last.out = "raise" THEN r.text ELSE last.text
    ELSE r.text

\* CleanResult without the trailing .strip()
CleanResultNoStrip(text) ==
    LET stripped == Replace(Replace(text, TERMINATE), KET_THUC) IN
    IF Len(Strip(stripped)) < MinResultLen THEN FALLBACK_MESSAGE ELSE stripped

\* final_result.replace("TERMINATE", "").replace("KẾT THÚC", "").strip(),
\* then the fallback for a text shorter than 5 characters
CleanResult(text) ==
    LET stripped == Strip(Replace(Replace(text, TERMINATE), KET_THUC)) IN
    IF Len(Strip(stripped)) < MinResultLen THEN FALLBACK_MESSAGE ELSE stripped

\* _extract_final_result of chat_service
ExtractFinalResult(r) == CleanResult(ChooseText(r))

\* the result extraction inlined in chat_endpoint of chat_controller
ChatEndpointResult(r) == CleanResult(ChooseText(r))

-----------------------------------------------------------------------------
(* Values of the other components while one component is exercised.        *)

NoRouting == [message |-> <<>>, agents |-> <<>>, selected |-> 0, called |-> FALSE]
NoCall    == [op |-> "none", message |-> [isdict |-> TRUE, content |-> Absent],
              messages |-> <<>>, ret |-> "none",
              flagged |-> FALSE, after_true |-> FALSE, again |-> FALSE]
NoAgent   == [has_update |-> FALSE, on_text |-> "ok", on_wrapped |-> "ok",
              has_field |-> FALSE, field_assign |-> "ok",
              system_message |-> "absent", sm_assign |-> "ok"]
NoUpdate  == [op |-> "none", raised |-> FALSE, applied |-> "none",
              warned |-> FALSE, tried |-> <<>>]

ExtIdle  == result = NoResult /\ final_result = [by |-> "none", text |-> <<>>]
RtIdle   == routing = NoRouting
ThIdle   == round_count = 0 /\ max_rounds = 0 /\ check_solved = FALSE
            /\ th_call = NoCall
PzIdle   == agent = NoAgent /\ update = NoUpdate
NoTeamCache == [chat_service |-> FALSE, chat_controller |-> FALSE]
SessIdle == sessions = <<>> /\ team_cache = NoTeamCache
NoSelectCall == [last_speaker |-> "User", messages |-> <<>>, called |-> FALSE,
                 ret |-> [kind |-> "none", index |-> 0, error |-> "none"]]
SelIdle == selector_agents = <<>> /\ select_call = NoSelectCall
NoHistCall == [op |-> "none", before |-> <<>>]
HistIdle == chat_history = [is_list |-> TRUE, messages |-> <<>>]
            /\ hist_call = NoHistCall

NoCreateCall == [context_data |-> [language |-> Absent, goals |-> Absent],
                 mechanisms |-> [has_update |-> TRUE, on_text |-> "ok",
                                 on_wrapped |-> "ok", sm_assign |-> "ok"],
                 called |-> FALSE, raised |-> FALSE, experts |-> <<>>]
CtIdle == create_call = NoCreateCall

ErrIdle == error_log = <<>>

LAbsent == "<absent>"
LNone   == "<None>"
ConfigKeys == {"model", "temperature", "api_key", "base_url", "model_info", "timeout"}
EmptyDict == [k \in ConfigKeys |-> LAbsent]
NoLlmReturn == [kind |-> "none", config |-> EmptyDict, error |-> "none"]
NoLlmCall == [op |-> "none", api_key |-> LNone, llm_config |-> [type |-> "None", text |-> "", dict |-> EmptyDict],
              after |-> EmptyDict, ret |-> NoLlmReturn, created |-> NoLlmReturn]
NoLlmClass == [default_model |-> "gpt-oss-120b", agent_model |-> LAbsent,
               api_key |-> "", base_url |-> "",
               model_infos |-> [n \in {"custom-model", "fallback-model", "default"} |-> LAbsent]]
LlmIdle == llm_class = NoLlmClass /\ llm_call = NoLlmCall

NoPyReturn == [kind |-> "none", error |-> "none", timed_out |-> FALSE, exit_code |-> "none"]
NoPyCall == [called |-> FALSE, code |-> [is_str |-> TRUE, text |-> <<>>],
             timeout_sec |-> [type |-> "int", tenths |-> 30], written |-> <<>>,
             started |-> 0, timeout |-> 0, expired |-> FALSE, ret |-> NoPyReturn]
PyIdle == py_call = NoPyCall

NoGcReturn == [kind |-> "none", error |-> "none", speaker |-> "None",
               clear_history |-> FALSE, max_turns |-> 0]
NoGcCall == [called |-> FALSE, message |-> <<>>, agents |-> <<>>, max_rounds |-> 0,
             prepared |-> [len |-> 0, last_agent |-> "None"], resumed |-> "None",
             ret |-> NoGcReturn]
GcIdle == gc_call = NoGcCall

NoTmCall == [message |-> DictMsg(Absent), team |-> "none", controller |-> "none"]
TmIdle == tm_call = NoTmCall

NoPuAgent == [mechanisms |-> NoAgent, text |-> <<>>]
NoPuCall == [runs |-> 0, context_data |-> [language |-> Absent, goals |-> Absent],
             first |-> <<>>, raised |-> FALSE]
PuIdle == pu_agent = NoPuAgent /\ pu_call = NoPuCall

\* ConversationMonitor() as constructed; no call made yet.
NoMonitor == [turn_count |-> 0, agent_contributions |-> [a \in {} |-> 0],
              topics_discussed |-> {}, questions_asked |-> <<>>,
              answers_provided |-> <<>>]
NoSummary == [total_turns |-> 0, agent_contributions |-> [a \in {} |-> 0],
              topics_discussed |-> {}, questions_count |-> 0, answers_count |-> 0,
              participation_rate |-> [a \in {} |-> 0]]
NoMonitorCall == [op |-> "none", message |-> [name |-> LAbsent, content |-> Absent],
                  updates |-> 0, ret |-> "None", summary |-> NoSummary]
CmIdle == monitor = NoMonitor /\ monitor_call = NoMonitorCall

\* For each component, the variables of the other components and their
\* values while that component is exercised.
extFrame  == <<rtVars, thVars, pzVars, sessVars, histVars, selVars, ctVars, errVars, llmVars, pyVars, gcVars, tmVars, puVars, cmVars>>
rtFrame   == <<extVars, thVars, pzVars, sessVars, histVars, selVars, ctVars, errVars, llmVars, pyVars, gcVars, tmVars, puVars, cmVars>>
thFrame   == <<extVars, rtVars, pzVars, sessVars, histVars, selVars, ctVars, errVars, llmVars, pyVars, gcVars, tmVars, puVars, cmVars>>
pzFrame   == <<extVars, rtVars, thVars, sessVars, histVars, selVars, ctVars, errVars, llmVars, pyVars, gcVars, tmVars, puVars, cmVars>>
sessFrame == <<extVars, rtVars, thVars, pzVars, histVars, selVars, ctVars, errVars, llmVars, pyVars, gcVars, tmVars, puVars, cmVars>>
histFrame == <<extVars, rtVars, thVars, pzVars, sessVars, selVars, ctVars, errVars, llmVars, pyVars, gcVars, tmVars, puVars, cmVars>>

ctFrame == <<extVars, rtVars, thVars, pzVars, sessVars, histVars, selVars, errVars, llmVars, pyVars, gcVars, tmVars, puVars, cmVars>>
errFrame == <<extVars, rtVars, thVars, pzVars, sessVars, histVars, ctVars, selVars, llmVars, pyVars, gcVars, tmVars, puVars, cmVars>>
llmFrame == <<extVars, rtVars, thVars, pzVars, sessVars, histVars, ctVars, errVars, selVars, pyVars, gcVars, tmVars, puVars, cmVars>>
pyFrame == <<extVars, rtVars, thVars, pzVars, sessVars, histVars, ctVars, errVars, llmVars, selVars, gcVars, tmVars, puVars, cmVars>>
gcFrame == <<extVars, rtVars, thVars, pzVars, sessVars, histVars, ctVars, errVars, llmVars, pyVars, selVars, tmVars, puVars, cmVars>>
tmFrame == <<extVars, rtVars, thVars, pzVars, sessVars, histVars, ctVars, errVars, llmVars, pyVars, gcVars, selVars, puVars, cmVars>>
puFrame == <<extVars, rtVars, thVars, pzVars, sessVars, histVars, ctVars, errVars, llmVars, pyVars, gcVars, tmVars, selVars, cmVars>>
cmFrame == <<extVars, rtVars, thVars, pzVars, sessVars, histVars, ctVars, errVars, llmVars, pyVars, gcVars, tmVars, puVars, selVars>>
CmFrameIdle == ExtIdle /\ RtIdle /\ ThIdle /\ PzIdle /\ SessIdle /\ HistIdle /\ CtIdle /\ ErrIdle /\ LlmIdle /\ PyIdle /\ GcIdle /\ TmIdle /\ PuIdle /\ SelIdle
PuFrameIdle == ExtIdle /\ RtIdle /\ ThIdle /\ PzIdle /\ SessIdle /\ HistIdle /\ CtIdle /\ ErrIdle /\ LlmIdle /\ PyIdle /\ GcIdle /\ TmIdle /\ SelIdle /\ CmIdle
TmFrameIdle == ExtIdle /\ RtIdle /\ ThIdle /\ PzIdle /\ SessIdle /\ HistIdle /\ CtIdle /\ ErrIdle /\ LlmIdle /\ PyIdle /\ GcIdle /\ SelIdle /\ PuIdle /\ CmIdle
GcFrameIdle == ExtIdle /\ RtIdle /\ ThIdle /\ PzIdle /\ SessIdle /\ HistIdle /\ CtIdle /\ ErrIdle /\ LlmIdle /\ PyIdle /\ SelIdle /\ TmIdle /\ PuIdle /\ CmIdle
PyFrameIdle == ExtIdle /\ RtIdle /\ ThIdle /\ PzIdle /\ SessIdle /\ HistIdle /\ CtIdle /\ ErrIdle /\ LlmIdle /\ SelIdle /\ GcIdle /\ TmIdle /\ PuIdle /\ CmIdle
LlmFrameIdle == ExtIdle /\ RtIdle /\ ThIdle /\ PzIdle /\ SessIdle /\ HistIdle /\ CtIdle /\ ErrIdle /\ SelIdle /\ PyIdle /\ GcIdle /\ TmIdle /\ PuIdle /\ CmIdle
ErrFrameIdle == ExtIdle /\ RtIdle /\ ThIdle /\ PzIdle /\ SessIdle /\ HistIdle /\ CtIdle /\ SelIdle /\ LlmIdle /\ PyIdle /\ GcIdle /\ TmIdle /\ PuIdle /\ CmIdle
CtFrameIdle == ExtIdle /\ RtIdle /\ ThIdle /\ PzIdle /\ SessIdle /\ HistIdle /\ SelIdle /\ ErrIdle /\ LlmIdle /\ PyIdle /\ GcIdle /\ TmIdle /\ PuIdle /\ CmIdle
ExtFrameIdle  == RtIdle /\ ThIdle /\ PzIdle /\ SessIdle /\ HistIdle /\ SelIdle /\ CtIdle /\ ErrIdle /\ LlmIdle /\ PyIdle /\ GcIdle /\ TmIdle /\ PuIdle /\ CmIdle
RtFrameIdle   == ExtIdle /\ ThIdle /\ PzIdle /\ SessIdle /\ HistIdle /\ SelIdle /\ CtIdle /\ ErrIdle /\ LlmIdle /\ PyIdle /\ GcIdle /\ TmIdle /\ PuIdle /\ CmIdle
ThFrameIdle   == ExtIdle /\ RtIdle /\ PzIdle /\ SessIdle /\ HistIdle /\ SelIdle /\ CtIdle /\ ErrIdle /\ LlmIdle /\ PyIdle /\ GcIdle /\ TmIdle /\ PuIdle /\ CmIdle
PzFrameIdle   == ExtIdle /\ RtIdle /\ ThIdle /\ SessIdle /\ HistIdle /\ SelIdle /\ CtIdle /\ ErrIdle /\ LlmIdle /\ PyIdle /\ GcIdle /\ TmIdle /\ PuIdle /\ CmIdle
SessFrameIdle == ExtIdle /\ RtIdle /\ ThIdle /\ PzIdle /\ HistIdle /\ SelIdle /\ CtIdle /\ ErrIdle /\ LlmIdle /\ PyIdle /\ GcIdle /\ TmIdle /\ PuIdle /\ CmIdle
selFrame  == <<extVars, rtVars, thVars, pzVars, sessVars, histVars, ctVars, errVars, llmVars, pyVars, gcVars, tmVars, puVars, cmVars>>
SelFrameIdle  == ExtIdle /\ RtIdle /\ ThIdle /\ PzIdle /\ SessIdle /\ HistIdle /\ CtIdle /\ ErrIdle /\ LlmIdle /\ PyIdle /\ GcIdle /\ TmIdle /\ PuIdle /\ CmIdle
HistFrameIdle == ExtIdle /\ RtIdle /\ ThIdle /\ PzIdle /\ SessIdle /\ SelIdle /\ CtIdle /\ ErrIdle /\ LlmIdle /\ PyIdle /\ GcIdle /\ TmIdle /\ PuIdle /\ CmIdle

-----------------------------------------------------------------------------
(* The Result Extractor applied to result values of every shape.           *)

\* Number of fragments a text is built from.
MaxParts == 3
\* Number of other messages around the chosen message of a history.
MaxPad == 1

Answer      == <<"A","n","s","w","e","r",".">>
FinalAnswer == <<"f","i","n","a","l"," ","a","n","s","w","e","r">>
ToolMarker  == <<"[","t","o","o","l"," ","c","a","l","l"," ","d","o","n","e","]">>
ReprText    == <<"<","C","h","a","t","R","e","s","u","l","t",">">>

Frags == {Answer, <<" ">>, <<"X">>, TERMINATE, KET_THUC,
          <<"T","E","R","M","I">>, <<"N","A","T","E">>}
HistFrags == {FinalAnswer, <<" ">>, TERMINATE}

RECURSIVE TextsOf(_, _)
\* The texts made of at most n fragments of F.
TextsOf(F, n) ==
    IF n = 0 THEN {<<>>}
    ELSE LET prev == TextsOf(F, n - 1) IN
         prev \cup {t \o f : t \in prev, f \in F}

Texts     == TextsOf(Frags, MaxParts)
HistTexts == TextsOf(HistFrags, MaxParts)

Pads == {NonDictMsg, DictMsg(PyNone), DictMsg(Absent), DictMsg(PyInt),
         DictMsg(PyStr(ToolMarker)), DictMsg(PyStr(<<"o","k">>))}

RECURSIVE PadSeqs(_)
PadSeqs(n) ==
    IF n = 0 THEN {<<>>}
    ELSE LET prev == PadSeqs(n - 1) IN
         prev \cup {p \o <<m>> : p \in prev, m \in Pads}

Histories ==
    PadSeqs(MaxPad)
    \cup {p \o <<DictMsg(PyStr(t))>> \o q :
            p \in PadSeqs(MaxPad), q \in PadSeqs(MaxPad), t \in HistTexts}

FalsySummaries == {Absent, PyNone, PyStr(<<>>)}

Results ==
    {StrResult(t) : t \in Texts}
    \cup {ObjResult(PyStr(t), hh, IF hh THEN <<DictMsg(PyStr(FinalAnswer))>> ELSE <<>>,
                    ReprText) : t \in Texts \ {<<>>}, hh \in BOOLEAN}
    \cup {ObjResult(sm, TRUE, h, ReprText) : sm \in FalsySummaries, h \in Histories}
    \cup {ObjResult(sm, FALSE, <<>>, rp) :
            sm \in FalsySummaries \cup {PyInt}, rp \in {ReprText, PyNone.text}}

\* chat_service._run_group_chat_sync hands the engine's result to the extractor
ExtractService ==
    /\ final_result.by = "none"
    /\ final_result' = [by |-> "chat_service", text |-> ExtractFinalResult(result)]
    /\ UNCHANGED <<result, extFrame>>

\* chat_controller.chat_endpoint extracts the result inline
ExtractController ==
    /\ final_result.by = "none"
    /\ final_result' = [by |-> "chat_controller", text |-> ChatEndpointResult(result)]
    /\ UNCHANGED <<result, extFrame>>

InitExtract ==
    /\ result \in Results
    /\ final_result = [by |-> "none", text |-> <<>>]
    /\ ExtFrameIdle
NextExtract == ExtractService \/ ExtractController
SpecExtract == InitExtract /\ [][NextExtract]_vars

Extracted == final_result.by # "none"

\* C2: whatever the input, the extractor returns a non-empty string in which
\* neither "TERMINATE" nor "KẾT THÚC" occurs.
C2_NonEmptySentinelFree ==
    Extracted =>
        /\ Len(final_result.text) > 0
        /\ ~Contains(final_result.text, TERMINATE)
        /\ ~Contains(final_result.text, KET_THUC)

ExampleString  == Answer \o <<" ">> \o TERMINATE
ExampleSummary == <<"X">> \o <<" ">> \o TERMINATE
ExampleContent == FinalAnswer \o <<" ">> \o TERMINATE

IsExampleString  == result.kind = "str" /\ result.text = ExampleString
IsExampleSummary == result.kind = "obj" /\ result.summary = PyStr(ExampleSummary)
IsExampleHistory ==
    /\ result.kind = "obj" /\ ~Truthy(result.summary)
    /\ result.has_history /\ result.chat_history # <<>>
    /\ result.chat_history[Len(result.chat_history)] = DictMsg(PyStr(ExampleContent))

\* C10 as stated: "Answer. TERMINATE" gives "Answer."; summary "X TERMINATE"
\* gives "X"; a history ending with content "final answer TERMINATE" gives
\* "final answer".
C10_Original ==
    Extracted =>
        /\ IsExampleString  => final_result.text = Answer
        /\ IsExampleSummary => final_result.text = <<"X">>
        /\ IsExampleHistory => final_result.text = FinalAnswer

\* C10 amended: "Answer. TERMINATE" gives "Answer."; summary "X TERMINATE"
\* gives the fixed fallback message, "X" being shorter than five characters;
\* a history ending with content "final answer TERMINATE" gives "final answer".
C10_Amended ==
    Extracted =>
        /\ IsExampleString  => final_result.text = Answer
        /\ IsExampleSummary => final_result.text = FALLBACK_MESSAGE
        /\ IsExampleHistory => final_result.text = FinalAnswer

C10_Witness == Extracted /\ IsExampleSummary /\ final_result.text = FALLBACK_MESSAGE

-----------------------------------------------------------------------------
(* TerminationHandler of chat/termination.py.                              *)

\* settings.max_rounds: int(os.getenv("MAX_ROUNDS", "10"))
SettingsMaxRounds == 10
\* Calls are counted up to this round count.
RoundCap == 4

\* re.search(pattern, content, re.IGNORECASE) for the patterns of
\* is_termination_msg, none of which holds a regex metacharacter
TerminationPatterns ==
    {TERMINATE,
     <<"T","a","s","k"," ","c","o","m","p","l","e","t","e","d">>,
     <<"P","r","o","b","l","e","m"," ","s","o","l","v","e","d">>,
     <<"Q","u","e","r","y"," ","a","n","s","w","e","r","e","d">>,
     <<"N","o"," ","f","u","r","t","h","e","r"," ","a","s","s","i","s","t","a",
       "n","c","e"," ","n","e","e","d","e","d">>}

SolutionIndicators ==
    {<<"a","n","s","w","e","r"," ","i","s">>,
     <<"s","o","l","u","t","i","o","n"," ","i","s">>,
     <<"t","h","e"," ","r","e","s","u","l","t"," ","i","s">>,
     <<"t","h","e","r","e","f","o","r","e">>,
     <<"i","n"," ","c","o","n","c","l","u","s","i","o","n">>,
     <<"f","i","n","a","l"," ","a","n","s","w","e","r">>,
     <<"c","o","r","r","e","c","t"," ","a","n","s","w","e","r">>}

AcknowledgmentPhrases ==
    {<<"t","h","a","n","k"," ","y","o","u">>,
     <<"t","h","a","n","k","s">>,
     <<"t","h","a","t","'","s"," ","c","o","r","r","e","c","t">>,
     <<"p","e","r","f","e","c","t">>,
     <<"g","r","e","a","t">>,
     <<"u","n","d","e","r","s","t","o","o","d">>,
     <<"i"," ","s","e","e">>,
     <<"m","a","k","e","s"," ","s","e","n","s","e">>}

\* self.max_rounds = max_rounds or settings.max_rounds (None and 0 are falsy;
\* the argument 0 stands for both)
HandlerMaxRounds(arg) == IF arg = 0 THEN SettingsMaxRounds ELSE arg

\* TerminationHandler.is_termination_msg: "True", "False", or "TypeError"
\* when the content is not a string (termination_msg in content)
IsTerminationMsg(message) ==
    LET content == GetContent(message) IN
    IF content.tag # "str" THEN "TypeError"
    ELSE IF Contains(content.text, TERMINATE) THEN "True"
    ELSE IF \E pat \in TerminationPatterns :
                Contains(Lower(content.text), Lower(pat))
         THEN "True"
         ELSE "False"

\* round_count == max_rounds instead of >=
CeilingReachedExact(rc, mr) == rc = mr

\* the comparison of check_max_rounds, on the incremented count
CeilingReached(rc, mr) == rc >= mr

\* TerminationHandler._check_acknowledgment: "True", "False", or
\* "AttributeError" when the last content is None
CheckAcknowledgment(messages) ==
    IF Len(messages) < 2 THEN "False"
    ELSE LET c == GetContent(messages[Len(messages)]) IN
         IF c.tag # "str" THEN "AttributeError"
         ELSE IF \E ph \in AcknowledgmentPhrases : Contains(Lower(c.text), ph)
              THEN "True" ELSE "False"

RECURSIVE SolvedScan(_, _, _)
\* the loop of check_problem_solved over recent_messages, from index i
SolvedScan(recent, i, messages) ==
    IF i > Len(recent) THEN "False"
    ELSE LET c == GetContent(recent[i]) IN
         IF c.tag # "str" THEN "AttributeError"
         ELSE IF \E ind \in SolutionIndicators : Contains(Lower(c.text), ind)
              THEN LET ack == CheckAcknowledgment(messages) IN
                   IF ack = "False" THEN SolvedScan(recent, i + 1, messages)
                   ELSE ack
              ELSE SolvedScan(recent, i + 1, messages)

\* messages[-3:]
LastThree(messages) ==
    IF Len(messages) <= 3 THEN messages
    ELSE SubSeq(messages, Len(messages) - 2, Len(messages))

\* TerminationHandler.check_problem_solved
CheckProblemSolved(cs, messages) ==
    IF ~cs \/ Len(messages) < 2 THEN "False"
    ELSE SolvedScan(LastThree(messages), 1, messages)

MsgTerminate == DictMsg(PyStr(<<"D","o","n","e","."," ","T","E","R","M","I","N","A","T","E">>))
MsgCompleted == DictMsg(PyStr(<<"t","a","s","k"," ","c","o","m","p","l","e","t","e","d">>))
MsgAnswer    == DictMsg(PyStr(<<"t","h","e"," ","a","n","s","w","e","r"," ","i","s"," ","4">>))
MsgThanks    == DictMsg(PyStr(<<"t","h","a","n","k","s">>))
MsgEmpty     == DictMsg(Absent)
MsgNone      == DictMsg(PyNone)

ThMessages == {MsgTerminate, MsgCompleted, MsgAnswer, MsgThanks, MsgEmpty, MsgNone}

ThHistories ==
    {<<>>, <<MsgAnswer>>, <<MsgAnswer, MsgThanks>>, <<MsgThanks, MsgAnswer>>,
     <<MsgEmpty, MsgThanks>>, <<MsgAnswer, MsgEmpty, MsgEmpty, MsgThanks>>,
     <<MsgEmpty, MsgAnswer, MsgEmpty, MsgThanks>>, <<MsgNone, MsgThanks>>,
     <<MsgAnswer, MsgNone>>, <<MsgNone, MsgAnswer, MsgEmpty, MsgThanks>>}

MaxRoundsArgs == {0, 1, 2, 3}

\* The verdicts of the pure checks, evaluated once per input.
IsTerminationMsgOf == [m \in ThMessages |-> IsTerminationMsg(m)]
CheckProblemSolvedOf ==
    [cs \in BOOLEAN |-> [h \in ThHistories |-> CheckProblemSolved(cs, h)]]

\* What should_terminate returns and the round count it leaves.
ShouldTerminateResult(message, messages, rc, mr, cs) ==
    LET explicit == IsTerminationMsgOf[message] IN
    IF explicit # "False" THEN [ret |-> explicit, round_count |-> rc]
    ELSE IF CeilingReached(rc + 1, mr) THEN [ret |-> "True", round_count |-> rc + 1]
    ELSE [ret |-> CheckProblemSolvedOf[cs][messages], round_count |-> rc + 1]

Repeats(op, m, h) ==
    /\ th_call.op = op /\ th_call.ret = "True"
    /\ th_call.message = m /\ th_call.messages = h

\* TerminationHandler.should_terminate(message, messages)
ShouldTerminate(m, h) ==
    LET res == ShouldTerminateResult(m, h, round_count, max_rounds, check_solved) IN
    /\ res.round_count <= RoundCap
    /\ round_count' = res.round_count
    /\ th_call' = [op |-> "should_terminate", message |-> m, messages |-> h,
                   ret |-> res.ret,
                   flagged |-> th_call.flagged \/ res.ret = "True",
                   after_true |-> th_call.flagged,
                   again |-> Repeats("should_terminate", m, h)]
    /\ UNCHANGED <<max_rounds, check_solved, thFrame>>

\* TerminationHandler.check_max_rounds()
CheckMaxRounds ==
    /\ round_count < RoundCap
    /\ round_count' = round_count + 1
    /\ th_call' = [op |-> "check_max_rounds", message |-> MsgEmpty, messages |-> <<>>,
                   ret |-> IF CeilingReached(round_count + 1, max_rounds)
                           THEN "True" ELSE "False",
                   flagged |-> th_call.flagged, after_true |-> FALSE,
                   again |-> FALSE]
    /\ UNCHANGED <<max_rounds, check_solved, thFrame>>

\* TerminationHandler.is_termination_msg(message), called on its own
IsTerminationMsgCall(m) ==
    /\ th_call' = [op |-> "is_termination_msg", message |-> m, messages |-> <<>>,
                   ret |-> IsTerminationMsgOf[m],
                   flagged |-> th_call.flagged, after_true |-> FALSE,
                   again |-> Repeats("is_termination_msg", m, <<>>)]
    /\ UNCHANGED <<round_count, max_rounds, check_solved, thFrame>>

\* TerminationHandler.reset()
Reset ==
    /\ round_count' = 0
    /\ th_call' = [NoCall EXCEPT !.op = "reset"]
    /\ UNCHANGED <<max_rounds, check_solved, thFrame>>

\* TerminationHandler.__init__
InitTerm ==
    /\ \E arg \in MaxRoundsArgs : max_rounds = HandlerMaxRounds(arg)
    /\ check_solved \in BOOLEAN
    /\ round_count = 0
    /\ th_call = NoCall
    /\ ThFrameIdle

NextTerm ==
    \/ \E m \in ThMessages, h \in ThHistories : ShouldTerminate(m, h)
    \/ CheckMaxRounds
    \/ \E m \in ThMessages : IsTerminationMsgCall(m)
    \/ Reset

SpecTerm == InitTerm /\ [][NextTerm]_vars

\* C7: once should_terminate has returned True and the handler was not reset,
\* no later should_terminate call returns False.
C7_TerminalNeverReverts ==
    (th_call.op = "should_terminate" /\ th_call.after_true) => th_call.ret # "False"

\* C8: the round counter never exceeds the maximum.
C8_RoundCountBounded == round_count <= max_rounds

\* C9: a call repeated with the same message (and history) right after it
\* returned True returns True again, and evaluating the termination predicate
\* changes nothing of the handler.
C9_Idempotent ==
    /\ [](th_call.again => th_call.ret = "True")
    /\ [][th_call'.op = "is_termination_msg" =>
            UNCHANGED <<round_count, max_rounds, check_solved>>]_vars

C9_Witness ==
    /\ th_call.op = "should_terminate" /\ th_call.again
    /\ th_call.ret = "True" /\ IsTerminationMsgOf[th_call.message] = "False"

-----------------------------------------------------------------------------
(* The keyword router _determine_best_agent of chat_controller.py.         *)

\* keywords_map (the character a-with-breve is written "a-breve")
KeywordsMap ==
    [
     Math_Expert |->
        <<<<"m","a","t","h">>,
          <<"m","a","t","h","e","m","a","t","i","c","s">>,
          <<"a","l","g","e","b","r","a">>,
          <<"g","e","o","m","e","t","r","y">>,
          <<"c","a","l","c","u","l","u","s">>,
          <<"s","t","a","t","i","s","t","i","c","s">>,
          <<"e","q","u","a","t","i","o","n">>,
          <<"f","o","r","m","u","l","a">>,
          <<"d","e","r","i","v","a","t","i","v","e">>,
          <<"i","n","t","e","g","r","a","l">>,
          <<"p","r","o","b","a","b","i","l","i","t","y">>,
          <<"s","o","l","v","e">>,
          <<"c","a","l","c","u","l","a","t","e">>,
          <<"c","o","m","p","u","t","e">>,
          <<"t","í","n","h">>,
          <<"t","o","á","n">>,
          <<"p","h","ư","ơ","n","g"," ","t","r","ì","n","h">>>>,
     Physics_Expert |->
        <<<<"p","h","y","s","i","c","s">>,
          <<"f","o","r","c","e">>,
          <<"e","n","e","r","g","y">>,
          <<"m","o","m","e","n","t","u","m">>,
          <<"a","c","c","e","l","e","r","a","t","i","o","n">>,
          <<"v","e","l","o","c","i","t","y">>,
          <<"e","l","e","c","t","r","i","c">>,
          <<"m","a","g","n","e","t","i","c">>,
          <<"w","a","v","e">>,
          <<"t","h","e","r","m","o","d","y","n","a","m","i","c","s">>,
          <<"q","u","a","n","t","u","m">>,
          <<"v","ậ","t"," ","l","ý">>,
          <<"l","ự","c">>,
          <<"n","a-breve","n","g"," ","l","ư","ợ","n","g">>,
          <<"g","i","a"," ","t","ố","c">>,
          <<"v","ậ","n"," ","t","ố","c">>>>,
     Chemistry_Expert |->
        <<<<"c","h","e","m","i","s","t","r","y">>,
          <<"c","h","e","m","i","c","a","l">>,
          <<"r","e","a","c","t","i","o","n">>,
          <<"m","o","l","e","c","u","l","e">>,
          <<"a","t","o","m">>,
          <<"b","o","n","d">>,
          <<"o","r","g","a","n","i","c">>,
          <<"i","n","o","r","g","a","n","i","c">>,
          <<"s","t","o","i","c","h","i","o","m","e","t","r","y">>,
          <<"e","q","u","i","l","i","b","r","i","u","m">>,
          <<"h","ó","a"," ","h","ọ","c">>,
          <<"p","h","ả","n"," ","ứ","n","g">>,
          <<"p","h","â","n"," ","t","ử">>,
          <<"n","g","u","y","ê","n"," ","t","ử">>>>,
     Biology_Expert |->
        <<<<"b","i","o","l","o","g","y">>,
          <<"c","e","l","l">>,
          <<"g","e","n","e","t","i","c">>,
          <<"d","n","a">>,
          <<"e","v","o","l","u","t","i","o","n">>,
          <<"e","c","o","l","o","g","y">>,
          <<"o","r","g","a","n","i","s","m">>,
          <<"p","r","o","t","e","i","n">>,
          <<"e","n","z","y","m","e">>,
          <<"p","h","o","t","o","s","y","n","t","h","e","s","i","s">>,
          <<"s","i","n","h"," ","h","ọ","c">>,
          <<"t","ế"," ","b","à","o">>,
          <<"g","e","n">>,
          <<"t","i","ế","n"," ","h","ó","a">>>>,
     CS_Expert |->
        <<<<"p","r","o","g","r","a","m","m","i","n","g">>,
          <<"c","o","d","e">>,
          <<"a","l","g","o","r","i","t","h","m">>,
          <<"d","a","t","a"," ","s","t","r","u","c","t","u","r","e">>,
          <<"s","o","f","t","w","a","r","e">>,
          <<"p","y","t","h","o","n">>,
          <<"j","a","v","a">>,
          <<"j","a","v","a","s","c","r","i","p","t">>,
          <<"d","a","t","a","b","a","s","e">>,
          <<"n","e","t","w","o","r","k">>,
          <<"c","o","m","p","u","t","e","r">>,
          <<"l","ậ","p"," ","t","r","ì","n","h">>,
          <<"t","h","u","ậ","t"," ","t","o","á","n">>,
          <<"c","ơ"," ","s","ở"," ","d","ữ"," ","l","i","ệ","u">>>>,
     English_Expert |->
        <<<<"e","n","g","l","i","s","h">>,
          <<"g","r","a","m","m","a","r">>,
          <<"v","o","c","a","b","u","l","a","r","y">>,
          <<"p","r","o","n","u","n","c","i","a","t","i","o","n">>,
          <<"i","e","l","t","s">>,
          <<"t","o","e","f","l">>,
          <<"w","r","i","t","i","n","g">>,
          <<"s","p","e","a","k","i","n","g">>,
          <<"l","i","s","t","e","n","i","n","g">>,
          <<"t","i","ế","n","g"," ","a","n","h">>,
          <<"n","g","ữ"," ","p","h","á","p">>>>,
     Literature_Expert |->
        <<<<"l","i","t","e","r","a","t","u","r","e">>,
          <<"p","o","e","m">>,
          <<"n","o","v","e","l">>,
          <<"s","t","o","r","y">>,
          <<"a","u","t","h","o","r">>,
          <<"c","h","a","r","a","c","t","e","r">>,
          <<"t","h","e","m","e">>,
          <<"a","n","a","l","y","s","i","s">>,
          <<"v","a-breve","n"," ","h","ọ","c">>,
          <<"t","h","ơ">>,
          <<"t","i","ể","u"," ","t","h","u","y","ế","t">>>>
    ]

\* Length of a roster.
MaxRoster == 3

\* An agent of the roster: its name, or an object without a name attribute.
Named(n) == [has_name |-> TRUE, name |-> n]
Nameless == [has_name |-> FALSE, name |-> ""]

AgentKinds ==
    {Named("Info_Agent"), Named("Math_Expert"), Named("Physics_Expert"),
     Named("CS_Expert"), Named("English_Expert"), Named("Biology_Expert"), Nameless}

RECURSIVE Rosters(_)
Rosters(n) ==
    IF n = 0 THEN {<<>>}
    ELSE LET prev == Rosters(n - 1) IN
         prev \cup {r \o <<a>> : r \in prev, a \in AgentKinds}

RouterMessages ==
   {<<"g","i","ả","i"," ","p","h","ư","ơ","n","g"," ","t","r","ì","n","h"," ","b","ậ","c"," ","h","a","i"," ","2","x","^","2","-","3","x","-","2","=","0">>,
    <<"C","o","r","r","e","c","t"," ","m","y"," ","E","n","g","l","i","s","h"," ","p","a","r","a","g","r","a","p","h"," ","a","n","d"," ","e","x","p","l","a","i","n"," ","g","r","a","m","m","a","r"," ","m","i","s","t","a","k","e","s">>,
    <<"S","o","l","v","e"," ","t","h","e"," ","f","o","r","c","e"," ","e","q","u","a","t","i","o","n">>,
    <<"f","o","r","c","e"," ","a","n","d"," ","e","n","e","r","g","y"," ","o","f"," ","a"," ","m","a","t","h"," ","f","o","r","m","u","l","a">>,
    <<"p","y","t","h","o","n"," ","c","o","d","e"," ","f","o","r"," ","a"," ","w","a","v","e">>,
    <<"h","e","l","l","o"," ","t","h","e","r","e">>,
    <<"G","E","N","E","R","A","L"," ","Q","U","E","S","T","I","O","N">>,
    <<>>,
    <<" "," ">>,
    <<"e","n","e","r","g","y"," ","c","o","d","e">>,
    <<"M","A","T","H"," ","a","n","d"," ","P","H","Y","S","I","C","S">>}

\* The score loop: the number of keywords of the list that occur in the
\* lower-cased message.
KeywordScore(name, message) ==
    LET message_lower == Lower(message) IN
    Cardinality({i \in 1..Len(KeywordsMap[name]) :
                    Contains(message_lower, KeywordsMap[name][i])})

\* The scores of the messages, evaluated once per expert and message.
ScoreOf ==
    [name \in DOMAIN KeywordsMap |->
        [m \in RouterMessages |-> KeywordScore(name, m)]]

\* hasattr(agent, 'name') and agent.name in keywords_map
Scored(a) == a.has_name /\ a.name \in DOMAIN KeywordsMap

RECURSIVE ScoreKeys(_, _)
\* The keys of agent_scores in insertion order: a dict keeps the place of a
\* key's first insertion.
ScoreKeys(agents, i) ==
    IF i = 0 THEN <<>>
    ELSE LET before == ScoreKeys(agents, i - 1) IN
         IF Scored(agents[i])
            /\ ~\E j \in 1..Len(before) : before[j] = agents[i].name
         THEN Append(before, agents[i].name)
         ELSE before

RECURSIVE MaxKeyLast(_, _, _)
\* max() that keeps the last of equally scored keys
MaxKeyLast(keys, i, scores) ==
    IF i = 1 THEN keys[1]
    ELSE LET best == MaxKeyLast(keys, i - 1, scores) IN
         IF scores[keys[i]] >= scores[best] THEN keys[i] ELSE best

RECURSIVE MaxKey(_, _, _)
\* max(agent_scores, key=agent_scores.get) over the first i keys: a later key
\* replaces the best one only when its score is strictly greater
MaxKey(keys, i, scores) ==
    IF i = 1 THEN keys[1]
    ELSE LET best == MaxKey(keys, i - 1, scores) IN
         IF scores[keys[i]] > scores[best] THEN keys[i] ELSE best

\* next((a for a in agents if hasattr(a, 'name') and a.name == n), None),
\* as an index into agents, 0 for None
FirstNamed(agents, n) ==
    IF \E i \in 1..Len(agents) : agents[i].has_name /\ agents[i].name = n
    THEN CHOOSE i \in 1..Len(agents) :
            /\ agents[i].has_name /\ agents[i].name = n
            /\ \A j \in 1..(i - 1) : ~(agents[j].has_name /\ agents[j].name = n)
    ELSE 0

\* _determine_best_agent(message, agents): the index of the agent returned,
\* 0 for None
DetermineBestAgent(message, agents) ==
    LET keys   == ScoreKeys(agents, Len(agents))
        scores == [n \in DOMAIN KeywordsMap |-> ScoreOf[n][message]]
    IN  IF keys = <<>> THEN 0
        ELSE LET best_agent_name == MaxKey(keys, Len(keys), scores) IN
             IF scores[best_agent_name] > 0
             THEN FirstNamed(agents, best_agent_name)
             ELSE 0

Route ==
    /\ ~routing.called
    /\ routing' = [routing EXCEPT
                     !.called = TRUE,
                     !.selected = DetermineBestAgent(routing.message, routing.agents)]
    /\ UNCHANGED rtFrame

InitRouter ==
    /\ \E m \in RouterMessages, r \in Rosters(MaxRoster) :
          routing = [message |-> m, agents |-> r, selected |-> 0, called |-> FALSE]
    /\ RtFrameIdle

NextRouter == Route
SpecRouter == InitRouter /\ [][NextRouter]_vars

\* The keyword kw occurs in the message when case is ignored.
OccursIgnoringCase(kw, message) ==
    \E i \in 0..(Len(message) - Len(kw)) :
        \A k \in 1..Len(kw) : LowerChar(message[i + k]) = LowerChar(kw[k])

OverlapOf ==
    [name \in DOMAIN KeywordsMap |->
        [m \in RouterMessages |->
            Cardinality({i \in 1..Len(KeywordsMap[name]) :
                            OccursIgnoringCase(KeywordsMap[name][i], m)})]]

\* The number of keywords of the agent at place i that occur in the message,
\* case-insensitively; 0 for an agent that has no keyword list.
OverlapScore(i) ==
    LET a == routing.agents[i] IN
    IF a.has_name /\ a.name \in DOMAIN KeywordsMap
    THEN OverlapOf[a.name][routing.message]
    ELSE 0

\* C3: the router returns the roster expert whose keyword score is positive
\* and maximal, the first declared of them when several share that score
\* (and nobody when every score is zero).
C3_RouterPicksFirstMaximal ==
    routing.called =>
        LET n == Len(routing.agents) IN
        IF \E i \in 1..n : OverlapScore(i) > 0
        THEN /\ routing.selected \in 1..n
             /\ OverlapScore(routing.selected) > 0
             /\ \A j \in 1..n : OverlapScore(j) <= OverlapScore(routing.selected)
             /\ \A j \in 1..(routing.selected - 1) :
                    OverlapScore(j) < OverlapScore(routing.selected)
        ELSE routing.selected = 0

C3_Witness ==
    /\ routing.called /\ routing.selected > 0
    /\ \E j \in (routing.selected + 1)..Len(routing.agents) :
          /\ routing.agents[j] # routing.agents[routing.selected]
          /\ OverlapScore(j) = OverlapScore(routing.selected)

-----------------------------------------------------------------------------
(* Applying an instruction text to an expert: _set_system_message_text of  *)
(* personalization.py and the update chain inside create_team.             *)
(*                                                                         *)
(* An expert object is described by what its update mechanisms do:         *)
(*   has_update      hasattr(agent, "update_system_message")               *)
(*   on_text         update_system_message(str): "ok", "TypeError", or     *)
(*                   "Error" (any other exception)                         *)
(*   on_wrapped      update_system_message(UpdateSystemMessage(...)),      *)
(*                   the construction of the wrapper included              *)
(*   has_field       hasattr(agent, "_system_message")                     *)
(*   field_assign    agent._system_message = text: "ok" or "Error"         *)
(*   system_message  what getattr(agent, "system_message", None) gives:    *)
(*                   "absent", "str", "obj" (has a content that can be     *)
(*                   set), or "obj_ro" (setting content raises)            *)
(*   sm_assign       agent.system_message = text: "ok" or "Error"          *)

Agents ==
    [has_update : BOOLEAN, on_text : {"ok", "TypeError", "Error"},
     on_wrapped : {"ok", "TypeError", "Error"},
     has_field : BOOLEAN, field_assign : {"ok", "Error"},
     system_message : {"absent", "str", "obj", "obj_ro"},
     sm_assign : {"ok", "Error"}]

Outcome(op, raised, applied, warned, tried) ==
    [op |-> op, raised |-> raised, applied |-> applied, warned |-> warned,
     tried |-> tried]

\* personalization.py lines 39-57: the internal field, the content of the
\* system_message object, the warning
SetViaFields(a, tried) ==
    LET op == "set_system_message_text"
        t2 == IF a.has_field THEN Append(tried, "field") ELSE tried
    IN  IF a.has_field /\ a.field_assign = "ok"
        THEN Outcome(op, FALSE, "field", FALSE, t2)
        ELSE IF a.system_message = "obj"
        THEN Outcome(op, FALSE, "content", FALSE, Append(t2, "content"))
        ELSE IF a.system_message = "obj_ro"
        THEN Outcome(op, FALSE, "none", TRUE, Append(t2, "content"))
        ELSE Outcome(op, FALSE, "none", TRUE, t2)

\* _set_system_message_text(agent, new_text)
SetSystemMessageText(a) ==
    LET op == "set_system_message_text" IN
    IF a.has_update
    THEN CASE a.on_text = "ok" ->
                Outcome(op, FALSE, "update_text", FALSE, <<"update_text">>)
           [] a.on_text = "Error" ->
                \* only TypeError is caught around the first call
                Outcome(op, TRUE, "none", FALSE, <<"update_text">>)
           [] OTHER ->
                IF a.on_wrapped = "ok"
                THEN Outcome(op, FALSE, "update_wrapped", FALSE,
                             <<"update_text", "update_wrapped">>)
                ELSE SetViaFields(a, <<"update_text", "update_wrapped">>)
    ELSE SetViaFields(a, <<>>)

\* an update that assigns system_message without asking the entrypoint
CreateTeamUpdateAssignOnly(a) ==
    IF a.sm_assign = "ok"
    THEN Outcome("create_team", FALSE, "assign", FALSE, <<"assign">>)
    ELSE Outcome("create_team", TRUE, "none", FALSE, <<"assign">>)

\* create_team lines 341-357: the update of one subject expert
CreateTeamUpdate(a) ==
    LET op == "create_team"
        assign(tried) ==
            IF a.sm_assign = "ok"
            THEN Outcome(op, FALSE, "assign", FALSE, Append(tried, "assign"))
            ELSE Outcome(op, TRUE, "none", FALSE, Append(tried, "assign"))
    IN  IF a.has_update
        THEN IF a.on_text = "ok"
             THEN Outcome(op, FALSE, "update_text", FALSE, <<"update_text">>)
             ELSE IF a.on_wrapped = "ok"
             THEN Outcome(op, FALSE, "update_wrapped", FALSE,
                          <<"update_text", "update_wrapped">>)
             ELSE assign(<<"update_text", "update_wrapped">>)
        ELSE assign(<<>>)

ApplySetSystemMessageText ==
    /\ update.op = "none"
    /\ update' = SetSystemMessageText(agent)
    /\ UNCHANGED <<agent, pzFrame>>

ApplyCreateTeamUpdate ==
    /\ update.op = "none"
    /\ update' = CreateTeamUpdate(agent)
    /\ UNCHANGED <<agent, pzFrame>>

InitPersonalize ==
    /\ agent \in Agents
    /\ update = NoUpdate
    /\ PzFrameIdle

NextPersonalize == ApplySetSystemMessageText \/ ApplyCreateTeamUpdate
SpecPersonalize == InitPersonalize /\ [][NextPersonalize]_vars

\* C4: applying an instruction text to an expert never raises, whatever the
\* expert's update mechanisms do.
C4_UpdateNeverRaises == update.op # "none" => ~update.raised


-----------------------------------------------------------------------------
(* The request path: run_chat of chat_service.py and chat_endpoint of      *)
(* chat_controller.py.  Each computes a round limit on the event loop,     *)
(* takes a roster (fresh, or the module's cached one) and runs the engine  *)
(* on a worker thread (asyncio.to_thread), so requests overlap.  The       *)
(* engine is the external library: it is handed a limit and runs some      *)
(* number of rounds up to it.                                              *)

\* int(os.getenv("MAX_CHAT_ROUNDS", "10"))
MaxChatRounds == 10
\* min(payload.max_rounds, 10)
EndpointCeiling == 10
\* min(max_rounds, 6)
GroupChatCeiling == 6

\* Rounds of one engine run that are followed.
MaxEngineRounds == 2

Min(a, b) == IF a <= b THEN a ELSE b
Max(a, b) == IF a >= b THEN a ELSE b

SessionIds == {1, 2}

BlankMessage == <<" "," ">>
MathMessage  ==
    <<"S","o","l","v","e"," ","t","h","e"," ","f","o","r","c","e"," ","e","q","u","a","t","i","o","n">>
SessionMessages == {<<>>, BlankMessage, MathMessage}
RequestedRounds == {1, 8, 1000}

\* The fields of ChatRequest that the request path reads.  temperature is
\* None, 0.0 or a positive number; model is None or a model name.
Requests ==
    [message : SessionMessages, model : {"None", "gpt"},
     temperature : {"None", "0.0", "0.7"}, max_rounds : RequestedRounds]

\* create_team: Info_Agent followed by the experts in the order of
\* EXPERT_DEFINITIONS
DefaultRoster ==
    <<Named("Info_Agent"), Named("CS_Expert"), Named("Math_Expert"),
      Named("English_Expert"), Named("Biology_Expert"), Named("Physics_Expert"),
      Named("Chemistry_Expert"), Named("Literature_Expert")>>

\* What pattern.prepare_group_chat hands back: the number of processed
\* messages, and the last agent (none, or the pattern's initial agent).
Prepared == [len : {1, 2}, last_agent : {"None", "Info_Agent"}]

\* os.getenv("LLM_BASE_MODEL", "gpt-oss-120b") and the default temperature of
\* create_team
DefaultTeamModel == "gpt-oss-120b"
DefaultTeamTemperature == "0.2"

\* The model and temperature a roster was built with; create_team() for the
\* cached one.
TeamConfig(model, temperature) == [model |-> model, temperature |-> temperature]
NoTeamConfig == TeamConfig("none", "none")
CachedTeamConfig == TeamConfig(DefaultTeamModel, DefaultTeamTemperature)

NewSession(entry, req, limit, team) ==
    [entry |-> entry, message |-> req.message, model |-> req.model,
     temperature |-> req.temperature, max_rounds |-> req.max_rounds,
     effective_max_rounds |-> limit, team |-> team,
     team_config |->
        IF team = "fresh"
        THEN \* model=payload.model or "gpt-oss-120b",
             \* temperature=payload.temperature or 0.2
             TeamConfig(IF req.model # "None" THEN req.model ELSE DefaultTeamModel,
                        IF req.temperature \notin {"None", "0.0"}
                        THEN req.temperature ELSE DefaultTeamTemperature)
        ELSE IF team = "cached" THEN CachedTeamConfig
        ELSE NoTeamConfig,
     pc |-> "thread",
     engine_limit |-> 0, speaker |-> "None", clear_history |-> FALSE,
     rounds |-> 0, result |-> [session |-> 0, message |-> <<>>]]

\* a run_chat that waits until every earlier session has ended
RunChatSerial ==
    /\ Len(sessions) < Cardinality(SessionIds)
    /\ \A i \in DOMAIN sessions : sessions[i].pc \in {"done", "failed"}
    /\ \E req \in Requests :
          sessions' = Append(sessions,
              NewSession("run_chat", req,
                         Max(req.max_rounds, MaxChatRounds), "none"))
    /\ UNCHANGED <<team_cache, sessFrame>>

\* run_chat up to its await: effective_max_rounds, then the hand-over to a
\* worker thread
RunChat ==
    /\ Len(sessions) < Cardinality(SessionIds)
    /\ \E req \in Requests :
          sessions' = Append(sessions,
              NewSession("run_chat", req,
                         Max(req.max_rounds, MaxChatRounds), "none"))
    /\ UNCHANGED <<team_cache, sessFrame>>

\* _run_group_chat_sync on the worker thread, up to the engine call: the
\* roster ("model or temperature is not None" builds a fresh one), the
\* pattern that starts at Triage_Agent, and the limit handed to the engine
RunGroupChatSync(i) ==
    /\ sessions[i].entry = "run_chat" /\ sessions[i].pc = "thread"
    /\ LET s     == sessions[i]
           fresh == s.model # "None" \/ s.temperature # "None"
       IN  /\ sessions' = [sessions EXCEPT ![i] =
                 [s EXCEPT !.team = IF fresh THEN "fresh" ELSE "cached",
                           !.team_config =
                              IF fresh
                              THEN TeamConfig(
                                     IF s.model # "None" THEN s.model
                                     ELSE DefaultTeamModel,
                                     IF s.temperature # "None" THEN s.temperature
                                     ELSE DefaultTeamTemperature)
                              ELSE CachedTeamConfig,
                           !.pc = "engine",
                           !.engine_limit = s.effective_max_rounds,
                           !.speaker = "Triage_Agent",
                           !.clear_history = TRUE]]
           /\ team_cache' = IF fresh THEN team_cache
                            ELSE [team_cache EXCEPT !.chat_service = TRUE]
    /\ UNCHANGED sessFrame

\* chat_endpoint up to its await: the limit, the roster ("payload.model or
\* payload.temperature": a temperature of 0.0 is falsy) and the pattern
ChatEndpoint ==
    /\ Len(sessions) < Cardinality(SessionIds)
    /\ \E req \in Requests :
          LET fresh == req.model # "None" \/ req.temperature = "0.7" IN
          /\ sessions' = Append(sessions,
                NewSession("chat_endpoint", req,
                           Min(req.max_rounds, EndpointCeiling),
                           IF fresh THEN "fresh" ELSE "cached"))
          /\ team_cache' = IF fresh THEN team_cache
                           ELSE [team_cache EXCEPT !.chat_controller = TRUE]
    /\ UNCHANGED sessFrame

\* The agent _run_group_chat starts the chat with, "ValueError" when there is
\* none.
StartingAgent(message, agents, prepared) ==
    LET suggested == DetermineBestAgent(message, agents)
        info      == FirstNamed(agents, "Info_Agent")
    IN  IF prepared.len > 1 THEN "resumed"
        ELSE IF suggested # 0 THEN agents[suggested].name
        ELSE IF prepared.last_agent # "None" THEN prepared.last_agent
        ELSE IF info # 0 THEN agents[info].name
        ELSE "ValueError"

\* _run_group_chat on the worker thread, up to initiate_chat: the starting
\* agent, clear_history and max_turns = min(max_rounds, 6)
RunGroupChat(i) ==
    /\ sessions[i].entry = "chat_endpoint" /\ sessions[i].pc = "thread"
    /\ \E prepared \in Prepared :
          LET s == sessions[i]
              speaker == StartingAgent(s.message, DefaultRoster, prepared)
          IN  sessions' = [sessions EXCEPT ![i] =
                 [s EXCEPT !.pc = IF speaker = "ValueError" THEN "failed" ELSE "engine",
                           !.engine_limit = Min(s.effective_max_rounds, GroupChatCeiling),
                           !.speaker = speaker,
                           !.clear_history = ~(prepared.len > 1)]]
    /\ UNCHANGED <<team_cache, sessFrame>>

\* The engine runs rounds up to the limit it was given and returns; the
\* awaited to_thread call hands the worker's return value, the result for
\* this call's message, to the coroutine that made the call, where it is
\* extracted and the request answered.
EngineReturn(i) ==
    /\ sessions[i].pc = "engine"
    /\ \E k \in 0..Min(sessions[i].engine_limit, MaxEngineRounds) :
          sessions' = [sessions EXCEPT ![i] =
                          [sessions[i] EXCEPT
                              !.pc = "done", !.rounds = k,
                              !.result = [session |-> i,
                                          message |-> sessions[i].message]]]
    /\ UNCHANGED <<team_cache, sessFrame>>

\* The engine raises: run_chat lets the exception through, handle_errors
\* turns it into a 500 answer for chat_endpoint.
EngineRaise(i) ==
    /\ sessions[i].pc = "engine"
    /\ sessions' = [sessions EXCEPT ![i] = [sessions[i] EXCEPT !.pc = "failed"]]
    /\ UNCHANGED <<team_cache, sessFrame>>

InitSession == SessIdle /\ SessFrameIdle

NextSession ==
    \/ RunChat
    \/ ChatEndpoint
    \/ \E i \in DOMAIN sessions : RunGroupChatSync(i)
    \/ \E i \in DOMAIN sessions : RunGroupChat(i)
    \/ \E i \in DOMAIN sessions : EngineReturn(i)
    \/ \E i \in DOMAIN sessions : EngineRaise(i)

SpecSession == InitSession /\ [][NextSession]_vars

\* The process-wide ceiling of an entry point.
HardCeiling(entry) ==
    IF entry = "run_chat" THEN MaxChatRounds
    ELSE Min(EndpointCeiling, GroupChatCeiling)

\* C1: for every session the engine is run under the limit
\* min(requested max_rounds, hard ceiling) and runs no more rounds than that,
\* for run_chat as for chat_endpoint followed by _run_group_chat.
C1_RoundLimitIsMin ==
    \A i \in DOMAIN sessions :
        sessions[i].pc \in {"engine", "done"} =>
            /\ sessions[i].engine_limit
                  = Min(sessions[i].max_rounds, HardCeiling(sessions[i].entry))
            /\ sessions[i].rounds
                  <= Min(sessions[i].max_rounds, HardCeiling(sessions[i].entry))

IsBlank(message) == Strip(message) = <<>>

\* C5: a request whose message is empty or only whitespace is rejected before
\* a roster is taken, a pattern prepared or the engine called.
C5_BlankMessageRejected ==
    \A i \in DOMAIN sessions :
        IsBlank(sessions[i].message) =>
            /\ sessions[i].team = "none"
            /\ sessions[i].pc \notin {"engine", "done"}

-----------------------------------------------------------------------------
(* The message history: _safe_cleanup_messages of chat_controller.py on    *)
(* the chat_history of a result, and get_chat_history / clear_history of   *)
(* SelectorGroupChat on group_chat.messages.                               *)

\* Longest history that is followed.
MaxHistory == 3

\* A message of the history: a dict with its 'role' and 'temp' entries, or a
\* value that is not a dict.
HistMsg(role, temp) == [isdict |-> TRUE, role |-> role, temp |-> temp]
NonDictHistMsg == [isdict |-> FALSE, role |-> "absent", temp |-> "absent"]

HistMessages ==
    {HistMsg("user", "absent"), HistMsg("assistant", "absent"),
     HistMsg("system", "absent"), HistMsg("user", "True"),
     HistMsg("assistant", "False"), NonDictHistMsg}

RECURSIVE HistoriesUpTo(_)
HistoriesUpTo(n) ==
    IF n = 0 THEN {<<>>}
    ELSE LET prev == HistoriesUpTo(n - 1) IN
         prev \cup {h \o <<m>> : h \in prev, m \in HistMessages}

\* isinstance(msg, dict) and not msg.get('role') == 'system'
\*                       and not msg.get('temp', False)
KeptByCleanup(m) == m.isdict /\ m.role # "system" /\ m.temp # "True"

\* the loop that builds cleaned_history
CleanedHistory(h) == SelectSeq(h, KeptByCleanup)

\* _safe_cleanup_messages(chat_result).  The import of the engine's
\* cleanup_temp_user_messages either fails with ImportError, which leads to
\* the manual cleanup, or fails otherwise (a warning is printed), or
\* succeeds and the engine's function runs.
SafeCleanupMessages ==
    /\ \E import \in {"ImportError", "Error", "ok"} :
          /\ chat_history' =
                IF import = "ImportError" /\ chat_history.is_list
                THEN [chat_history EXCEPT !.messages = CleanedHistory(@)]
                ELSE chat_history
          /\ hist_call' = [op |-> "_safe_cleanup_messages",
                           before |-> chat_history.messages]
    /\ UNCHANGED histFrame

\* SelectorGroupChat.clear_history()
ClearHistory ==
    /\ chat_history' = [is_list |-> TRUE, messages |-> <<>>]
    /\ hist_call' = [op |-> "clear_history", before |-> chat_history.messages]
    /\ UNCHANGED histFrame

\* The engine appends a message to the history.
AppendMessage ==
    /\ chat_history.is_list
    /\ Len(chat_history.messages) < MaxHistory
    /\ \E m \in HistMessages :
          chat_history' = [chat_history EXCEPT !.messages = Append(@, m)]
    /\ hist_call' = [op |-> "append", before |-> chat_history.messages]
    /\ UNCHANGED histFrame

InitHistory ==
    /\ chat_history \in [is_list : BOOLEAN, messages : HistoriesUpTo(MaxHistory)]
    /\ hist_call = NoHistCall
    /\ HistFrameIdle

NextHistory == SafeCleanupMessages \/ ClearHistory \/ AppendMessage
SpecHistory == InitHistory /\ [][NextHistory]_vars

IsPrefix(s, t) == Len(s) <= Len(t) /\ \A i \in 1..Len(s) : s[i] = t[i]

\* C11: the history is append-only: after any operation, _safe_cleanup_messages
\* in particular, it holds every message it held before, in the same order.
C11_HistoryAppendOnly ==
    hist_call.op # "none" => IsPrefix(hist_call.before, chat_history.messages)


-----------------------------------------------------------------------------
(* The subject selector of SelectorGroupChat: the function returned by     *)
(* create_subject_selector, called by the engine with the last speaker and *)
(* the group chat, on a roster that add_agent / remove_agent change.       *)

\* agent_keywords, in the order of the dict
AgentKeywords ==
    <<[name |-> "Math_Expert", keywords |->
        <<<<"m","a","t","h">>,
          <<"c","a","l","c","u","l","u","s">>,
          <<"a","l","g","e","b","r","a">>,
          <<"g","e","o","m","e","t","r","y">>,
          <<"e","q","u","a","t","i","o","n">>,
          <<"i","n","t","e","g","r","a","l">>,
          <<"d","e","r","i","v","a","t","i","v","e">>>>],
      [name |-> "Physics_Expert", keywords |->
        <<<<"p","h","y","s","i","c","s">>,
          <<"f","o","r","c","e">>,
          <<"e","n","e","r","g","y">>,
          <<"m","o","m","e","n","t","u","m">>,
          <<"q","u","a","n","t","u","m">>,
          <<"r","e","l","a","t","i","v","i","t","y">>,
          <<"m","e","c","h","a","n","i","c","s">>>>],
      [name |-> "Chemistry_Expert", keywords |->
        <<<<"c","h","e","m","i","s","t","r","y">>,
          <<"c","h","e","m","i","c","a","l">>,
          <<"r","e","a","c","t","i","o","n">>,
          <<"m","o","l","e","c","u","l","e">>,
          <<"e","l","e","m","e","n","t">>,
          <<"c","o","m","p","o","u","n","d">>,
          <<"a","c","i","d">>>>],
      [name |-> "Biology_Expert", keywords |->
        <<<<"b","i","o","l","o","g","y">>,
          <<"c","e","l","l">>,
          <<"d","n","a">>,
          <<"e","v","o","l","u","t","i","o","n">>,
          <<"e","c","o","l","o","g","y">>,
          <<"o","r","g","a","n","i","s","m">>,
          <<"g","e","n","e","t","i","c","s">>>>],
      [name |-> "CS_Expert", keywords |->
        <<<<"p","r","o","g","r","a","m","m","i","n","g">>,
          <<"c","o","d","e">>,
          <<"a","l","g","o","r","i","t","h","m">>,
          <<"d","a","t","a"," ","s","t","r","u","c","t","u","r","e">>,
          <<"c","o","m","p","u","t","e","r">>,
          <<"s","o","f","t","w","a","r","e">>,
          <<"d","e","b","u","g">>>>],
      [name |-> "Literature_Expert", keywords |->
        <<<<"l","i","t","e","r","a","t","u","r","e">>,
          <<"e","s","s","a","y">>,
          <<"p","o","e","m">>,
          <<"s","t","o","r","y">>,
          <<"w","r","i","t","i","n","g">>,
          <<"a","u","t","h","o","r">>,
          <<"a","n","a","l","y","s","i","s">>>>],
      [name |-> "English_Expert", keywords |->
        <<<<"e","n","g","l","i","s","h">>,
          <<"g","r","a","m","m","a","r">>,
          <<"v","o","c","a","b","u","l","a","r","y">>,
          <<"i","e","l","t","s">>,
          <<"t","o","e","f","l">>,
          <<"p","r","o","n","u","n","c","i","a","t","i","o","n">>,
          <<"s","p","e","a","k","i","n","g">>>>],
      [name |-> "Info_Agent", keywords |->
        <<<<"m","a","t","e","r","i","a","l">>,
          <<"r","e","s","o","u","r","c","e">>,
          <<"q","u","i","z">>,
          <<"s","y","l","l","a","b","u","s">>,
          <<"d","o","c","u","m","e","n","t">>,
          <<"a","u","d","i","o">>,
          <<"v","i","d","e","o">>>>]>>

\* Longest roster of the group chat.
MaxSelectorRoster == 3
\* Longest list of group chat messages.
MaxSelectorMessages == 2

SelectorNames == {"Info_Agent", "Math_Expert", "CS_Expert"}
\* The user proxy that start_chat creates is not one of self.agents.
UserProxy == "User"

RECURSIVE SelectorRosters(_)
SelectorRosters(n) ==
    IF n = 0 THEN {<<>>}
    ELSE LET prev == SelectorRosters(n - 1) IN
         prev \cup {r \o <<a>> : r \in prev, a \in SelectorNames}

SelectorTexts ==
    {<<"S","o","l","v","e"," ","t","h","e"," ","f","o","r","c","e"," ","e","q","u","a","t","i","o","n">>,
     <<"h","e","l","l","o"," ","t","h","e","r","e">>,
     <<"P","y","t","h","o","n"," ","C","O","D","E"," ","p","l","e","a","s","e">>,
     <<"d","n","a"," ","o","f"," ","a"," ","c","e","l","l">>,
     <<"c","o","d","e"," ","f","o","r"," ","t","h","e"," ","e","q","u","a","t","i","o","n">>}

\* The "content" entry of a message: a text, None, or no entry.
SelectorContents == {PyStr(x) : x \in SelectorTexts} \cup {PyNone, Absent}

RECURSIVE SelectorMessageLists(_)
SelectorMessageLists(n) ==
    IF n = 0 THEN {<<>>}
    ELSE LET prev == SelectorMessageLists(n - 1) IN
         prev \cup {l \o <<c>> : l \in prev, c \in SelectorContents}

\* sum(1 for keyword in keywords if keyword in last_message), evaluated once
\* per entry of agent_keywords and text
SelectorScoreOf ==
    [k \in 1..Len(AgentKeywords) |->
        [x \in SelectorTexts |->
            Cardinality({i \in 1..Len(AgentKeywords[k].keywords) :
                Contains(Lower(x), AgentKeywords[k].keywords[i])})]]

RECURSIVE MaxScored(_, _)
\* max(agent_scores, key=agent_scores.get) over the first k entries of
\* agent_keywords: the place of the first entry of maximal positive score,
\* 0 when agent_scores is empty
MaxScored(x, k) ==
    IF k = 0 THEN 0
    ELSE LET best == MaxScored(x, k - 1) IN
         IF SelectorScoreOf[k][x] > 0
            /\ (best = 0 \/ SelectorScoreOf[k][x] > SelectorScoreOf[best][x])
         THEN k ELSE best

\* list.index(name), 0 when the list does not hold it
IndexOf(agents, name) ==
    IF \E i \in 1..Len(agents) : agents[i] = name
    THEN CHOOSE i \in 1..Len(agents) :
            agents[i] = name /\ \A j \in 1..(i - 1) : agents[j] # name
    ELSE 0

Returned(i) == [kind |-> "agent", index |-> i, error |-> "none"]
Raised(e)   == [kind |-> "raise", index |-> 0, error |-> e]

\* "Default to cycling through agents"
CycleSpeaker(agents, last_speaker) ==
    LET last_speaker_index == IndexOf(agents, last_speaker) IN
    IF last_speaker_index = 0 THEN Raised("ValueError")
    ELSE Returned((last_speaker_index % Len(agents)) + 1)

\* select_speaker(last_speaker, groupchat)
SelectSpeakerResult(agents, last_speaker, messages) ==
    IF messages = <<>>
    THEN IF agents = <<>> THEN Raised("IndexError") ELSE Returned(1)
    ELSE LET content == messages[Len(messages)] IN
         IF content = Absent THEN Raised("KeyError")
         ELSE IF content.tag # "str" THEN Raised("AttributeError")
         ELSE LET best == MaxScored(content.text, Len(AgentKeywords))
                  found == IF best = 0 THEN 0
                           ELSE IndexOf(agents, AgentKeywords[best].name)
              IN  IF found # 0 THEN Returned(found)
                  ELSE CycleSpeaker(agents, last_speaker)

SelectSpeaker ==
    /\ ~select_call.called
    /\ select_call' = [select_call EXCEPT
                         !.called = TRUE,
                         !.ret = SelectSpeakerResult(selector_agents,
                                     select_call.last_speaker, select_call.messages)]
    /\ UNCHANGED <<selector_agents, selFrame>>

\* SelectorGroupChat.remove_agent(agent_name): the first agent of that name
RemoveAgent ==
    /\ ~select_call.called
    /\ \E name \in SelectorNames :
          LET i == IndexOf(selector_agents, name) IN
          selector_agents' =
              IF i = 0 THEN selector_agents
              ELSE SubSeq(selector_agents, 1, i - 1)
                   \o SubSeq(selector_agents, i + 1, Len(selector_agents))
    /\ UNCHANGED <<select_call, selFrame>>

InitSelector ==
    /\ selector_agents \in SelectorRosters(MaxSelectorRoster)
    /\ \E s \in SelectorNames \cup {UserProxy},
          l \in SelectorMessageLists(MaxSelectorMessages) :
          select_call = [NoSelectCall EXCEPT !.last_speaker = s, !.messages = l]
    /\ SelFrameIdle

NextSelector == SelectSpeaker \/ RemoveAgent
SpecSelector == InitSelector /\ [][NextSelector]_vars

\* C12: whatever the last speaker (the user proxy and a removed agent
\* included) and the messages, the subject selector returns an agent of the
\* current roster and never fails.  Stated for a roster that is not empty and
\* messages whose content is text, where the selector has no other way to fail.
C12_SpeakerInRoster ==
    (/\ select_call.called
     /\ selector_agents # <<>>
     /\ \A i \in 1..Len(select_call.messages) : select_call.messages[i].tag = "str")
    => /\ select_call.ret.kind = "agent"
       /\ select_call.ret.index \in 1..Len(selector_agents)


-----------------------------------------------------------------------------
(* Roster construction: create_team of team_builder.py builds Info_Agent   *)
(* with its personalized instruction text and appends the personalization  *)
(* suffix to the text of every subject expert through the update chain.    *)

\* DEFAULT_CONTEXT
DefaultLanguage     == <<"v","i">>
DefaultStudentLevel == <<"H","S"," ","p","h","ổ"," ","t","h","ô","n","g">>
DefaultCurriculum   == <<"V","N"," ","K","-","1","2">>
DefaultGoals        ==
    <<"H","i","ể","u"," ","s","â","u"," ","k","h","á","i"," ","n","i","ệ","m"," ","v","à"," ","l","à","m"," ","b","à","i"," ","t","ậ","p"," ","c","ó"," ","h","ư","ớ","n","g"," ","d","ẫ","n">>

\* The entries of context_data that are followed: absent, or a text.
ContextData ==
    [language : {Absent, PyStr(<<"e","n">>)},
     goals : {Absent, PyStr(<<"P","a","s","s"," ","I","E","L","T","S">>),
              PyStr(<<"P","a","s","s"," ","I","E","L","T","S"," ">>)}]

\* {**DEFAULT_CONTEXT, **(context_data or {})}
ContextValues(context_data) ==
    [language      |-> IF context_data.language = Absent THEN DefaultLanguage
                       ELSE context_data.language.text,
     student_level |-> DefaultStudentLevel,
     curriculum    |-> DefaultCurriculum,
     goals         |-> IF context_data.goals = Absent THEN DefaultGoals
                       ELSE context_data.goals.text]

\* _personalization_suffix(cv) of create_team
PersonalizationSuffix(cv) ==
    <<"A","l","w","a","y","s"," ","r","e","s","p","o","n","d"," ","i","n"," ">>
    \o cv.language
    \o <<"."," ","S","t","u","d","e","n","t"," ","l","e","v","e","l",":"," ">>
    \o cv.student_level
    \o <<"."," ","C","u","r","r","i","c","u","l","u","m",":"," ">>
    \o cv.curriculum
    \o <<"."," ","G","o","a","l","s",":"," ">>
    \o cv.goals

\* INFO_AGENT_PROMPT and the text build_subject_system_message returns, cut
\* down to a first line between the newlines the prompt templates start and
\* end with; neither holds a personalization text (cv is not passed).
InfoAgentPrompt == <<"\n","Y","o","u"," ","a","r","e"," ","I","n","f","o","_","A","g","e","n","t",".","\n">>
SubjectPrompt(name) ==
    <<"\n","Y","o","u"," ","a","r","e"," ","a","n"," ","e","x","p","e","r","t",":"," ">>
    \o <<name>> \o <<"\n">>

\* The names of EXPERT_DEFINITIONS, in order
ExpertNames ==
    <<"CS_Expert", "Math_Expert", "English_Expert", "Biology_Expert",
      "Physics_Expert", "Chemistry_Expert", "Literature_Expert">>

\* an injection that appends the suffix a second time
PersonalizedTwice(base, suffix) ==
    Strip(base \o <<"\n","\n">> \o suffix \o <<"\n","\n">> \o suffix)

\* (base + "\n\n" + suffix).strip()
Personalized(base, suffix) == Strip(base \o <<"\n","\n">> \o suffix)

\* What the experts' class does with an update of the instruction text.
Mechanisms ==
    [has_update : BOOLEAN, on_text : {"ok", "Error"},
     on_wrapped : {"ok", "Error"}, sm_assign : {"ok", "Error"}]

\* create_team lines 341-357 for one subject expert: how the text reaches the
\* expert ("raise" when the plain assignment fails)
UpdatePath(m) ==
    IF m.has_update
    THEN IF m.on_text = "ok" THEN "update_text"
         ELSE IF m.on_wrapped = "ok" THEN "update_wrapped"
         ELSE IF m.sm_assign = "ok" THEN "assign" ELSE "raise"
    ELSE IF m.sm_assign = "ok" THEN "assign" ELSE "raise"

\* The expert after construction: its instruction text and the way it was set.
Expert(name, text, path) == [name |-> name, system_message |-> text, path |-> path]

\* create_team(context_data=...)
CreateTeam ==
    /\ ~create_call.called
    /\ LET suffix == PersonalizationSuffix(ContextValues(create_call.context_data))
           path   == UpdatePath(create_call.mechanisms)
           info_agent == Expert("Info_Agent",
                                Personalized(InfoAgentPrompt, suffix), "constructor")
           subject_agents ==
               [i \in 1..Len(ExpertNames) |->
                   Expert(ExpertNames[i],
                          Personalized(SubjectPrompt(ExpertNames[i]), suffix), path)]
       IN  create_call' =
              IF path = "raise"
              THEN [create_call EXCEPT !.called = TRUE, !.raised = TRUE]
              ELSE [create_call EXCEPT !.called = TRUE,
                                       !.experts = <<info_agent>> \o subject_agents]
    /\ UNCHANGED ctFrame

InitCreateTeam ==
    /\ \E c \in ContextData, m \in Mechanisms :
          create_call = [NoCreateCall EXCEPT !.context_data = c, !.mechanisms = m]
    /\ CtFrameIdle

NextCreateTeam == CreateTeam
SpecCreateTeam == InitCreateTeam /\ [][NextCreateTeam]_vars

\* Number of places of s at which p occurs.
Occurrences(s, p) ==
    Cardinality({i \in 0..(Len(s) - Len(p)) :
                    \A k \in 1..Len(p) : s[i + k] = p[k]})

TeamSuffix == PersonalizationSuffix(ContextValues(create_call.context_data))

\* C13 as stated: in the instruction text of every expert that create_team
\* returns, the personalization suffix derived from the context occurs
\* exactly once.
C13_Original ==
    \A i \in 1..Len(create_call.experts) :
        Occurrences(create_call.experts[i].system_message, TeamSuffix) = 1

\* C13 amended: the suffix, without the trailing whitespace that the final
\* strip() removes, occurs exactly once in the instruction text of every
\* expert that create_team returns, and the text ends with it, whichever
\* update path was taken.
C13_Amended ==
    \A i \in 1..Len(create_call.experts) :
        /\ Occurrences(create_call.experts[i].system_message, RStrip(TeamSuffix)) = 1
        /\ EndsWith(create_call.experts[i].system_message, RStrip(TeamSuffix))

C13_Witness ==
    /\ create_call.called /\ Len(create_call.experts) = Len(ExpertNames) + 1
    /\ create_call.experts[2].path = "update_wrapped"
    /\ create_call.context_data.goals # Absent
    /\ Occurrences(create_call.experts[2].system_message, RStrip(TeamSuffix)) = 1


-----------------------------------------------------------------------------
(* handle_errors of utils/error_handler.py: the wrapper around the route   *)
(* handlers (chat_endpoint, list_agents, the mock API's get_syllabus ...). *)

\* Wrapped calls that are followed.
MaxHandlerCalls == 2

\* Classes that derive from Exception, and classes that derive from
\* BaseException only.
ExceptionClasses ==
    {"HTTPException", "TimeoutError", "ValueError", "AuthenticationError",
     "RuntimeError", "KeyError"}
BaseOnlyClasses == {"CancelledError", "KeyboardInterrupt"}

\* LLMConfig.validate_api_key's message
NoApiKeyMessage == "No FPT Cloud API key provided. Set FCI_API_KEY environment variable or pass api_key parameter."
\* LLMConfig.build_model_client's message
KeyRequiredMessage == "FPT Cloud API key is required to build model client"
ExceptionMessages ==
    {NoApiKeyMessage, "Error code: 401 - invalid api key sk-1234",
     KeyRequiredMessage, "/srv/app/data/math/syllabus.json", ""}

Returns(payload) == [kind |-> "return", class |-> "", status |-> 0, text |-> payload]
Raises(class, status, text) ==
    [kind |-> "raise", class |-> class, status |-> status, text |-> text]

\* What a wrapped handler does: it returns, raises HTTPException(status,
\* detail), or raises another exception with a message.
HandlerOutcomes ==
    {Returns(p) : p \in {"result", ""}}
    \cup {Raises("HTTPException", s, x) :
            s \in {400, 401, 404, 500}, x \in {"Subject not found", "bad request"}}
    \cup {Raises(c, 0, m) :
            c \in (ExceptionClasses \ {"HTTPException"}) \cup BaseOnlyClasses,
            m \in ExceptionMessages}

Response(status, detail) == [kind |-> "http_error", status |-> status, detail |-> detail]

\* a detail text that repeats the exception's message
LeakyDetail(o) == o.text

\* the detail of the 500 answer
UnexpectedDetail(o) == "An unexpected error occurred."

\* wrapper(*args, **kwargs): what the caller of the wrapped handler gets
Wrapper(o) ==
    IF o.kind = "return" THEN [kind |-> "ok", status |-> 200, detail |-> o.text]
    ELSE IF o.class = "HTTPException" THEN Response(o.status, o.text)
    ELSE IF o.class = "TimeoutError" THEN Response(504, "Chat request timed out.")
    ELSE IF o.class \in ExceptionClasses THEN Response(500, UnexpectedDetail(o))
    ELSE [kind |-> "propagated", status |-> 0, detail |-> o.text]

HandleErrors ==
    /\ Len(error_log) < MaxHandlerCalls
    /\ \E o \in HandlerOutcomes :
          error_log' = Append(error_log, [outcome |-> o, response |-> Wrapper(o)])
    /\ UNCHANGED errFrame

InitErrors == ErrIdle /\ ErrFrameIdle
NextErrors == HandleErrors
SpecErrors == InitErrors /\ [][NextErrors]_vars

IsFailure(o) ==
    o.kind = "raise" /\ o.class \in ExceptionClasses \ {"HTTPException"}

\* C14: a failure of the wrapped handler (an exception other than
\* HTTPException) gives a response with fixed status and detail, 504 for a
\* timeout and 500 otherwise, the same for any two failures of the same kind
\* whatever their messages; an HTTPException reaches the caller unchanged.
C14_NoInternalDetail ==
    /\ \A i \in 1..Len(error_log) :
          LET o == error_log[i].outcome
              r == error_log[i].response
          IN  /\ IsFailure(o) =>
                    IF o.class = "TimeoutError"
                    THEN r = Response(504, "Chat request timed out.")
                    ELSE r = Response(500, "An unexpected error occurred.")
              /\ (o.kind = "raise" /\ o.class = "HTTPException") =>
                    r = Response(o.status, o.text)
    /\ \A i, j \in 1..Len(error_log) :
          (/\ IsFailure(error_log[i].outcome) /\ IsFailure(error_log[j].outcome)
           /\ (error_log[i].outcome.class = "TimeoutError")
                 = (error_log[j].outcome.class = "TimeoutError"))
          => error_log[i].response = error_log[j].response

C14_Witness ==
    /\ Len(error_log) = 2
    /\ error_log[1].outcome = Raises("ValueError", 0, NoApiKeyMessage)
    /\ error_log[2].outcome = Raises("KeyError", 0, "/srv/app/data/math/syllabus.json")
    /\ error_log[1].response = error_log[2].response
    /\ error_log[1].response.status = 500

\* A configuration error: LLMConfig finds no credentials.
IsConfigurationError(o) ==
    /\ o.kind = "raise" /\ o.class = "ValueError"
    /\ o.text \in {NoApiKeyMessage, KeyRequiredMessage}

\* An upstream authentication failure: the backend rejects the credentials.
IsUpstreamAuthFailure(o) ==
    o.kind = "raise" /\ o.class = "AuthenticationError"

\* C15: a configuration error and an upstream authentication failure get
\* different responses.
C15_ConfigDistinctFromAuth ==
    \A i, j \in 1..Len(error_log) :
        (IsConfigurationError(error_log[i].outcome)
         /\ IsUpstreamAuthFailure(error_log[j].outcome))
        => error_log[i].response # error_log[j].response


-----------------------------------------------------------------------------
(* LLMConfig of llm_config.py (get_agent_config, validate_api_key,         *)
(* build_model_client) and the llm_config handling of BaseAgent.__init__.  *)
(*                                                                         *)
(* A dict is a function from ConfigKeys to its values, LAbsent for a key   *)
(* the dict does not hold.  Values are texts; LNone stands for None, "{}"  *)
(* for an empty mapping and "" for the empty string.                       *)

\* bool(v) is False
Falsy(v) == v \in {LAbsent, LNone, "", "{}"}

InfoNames == {"custom-model", "fallback-model", "default"}

\* The class attributes: model_infos holds, for each name, no entry, an
\* empty entry or the model's information.
LlmClasses ==
    [default_model : {"fallback-model"},
     agent_model : {LAbsent, "agent-model"},
     api_key : {"", "env-key"},
     base_url : {"", "https://mkp-api.fptcloud.com"},
     model_infos : [InfoNames -> {LAbsent, "{}", "info"}]]

\* The entry of model_infos, tagged with the name it is stored under.
InfoEntry(cls, name) ==
    IF name \in InfoNames /\ cls.model_infos[name] # LAbsent
    THEN IF cls.model_infos[name] = "{}" THEN "{}"
         ELSE "info of " \o name
    ELSE LAbsent

\* Dicts given as llm_config / overrides / config.
GivenDicts ==
    {[k \in ConfigKeys |->
        CASE k = "model" -> m [] k = "temperature" -> x [] k = "model_info" -> i
          [] k = "api_key" -> a [] k = "timeout" -> o [] OTHER -> LAbsent] :
        m \in {LAbsent, "custom-model"}, x \in {LAbsent, "0.7"},
        i \in {LAbsent, "info given"}, a \in {LAbsent, "", "cfg-key"},
        o \in {LAbsent, "30"}}

\* The llm_config argument: None, a model name, or a dict.
LlmConfigArgs ==
    {[type |-> "None", text |-> "", dict |-> EmptyDict],
     [type |-> "str", text |-> "custom-model", dict |-> EmptyDict]}
    \cup {[type |-> "dict", text |-> "", dict |-> g] : g \in GivenDicts}

LlmRaise(e)    == [kind |-> "raise", config |-> EmptyDict, error |-> e]
LlmConfigOf(c) == [kind |-> "config", config |-> c, error |-> "none"]

\* a fallback that does not look at the default model's entry
ModelInfoNoDefaultModel(cls, model) ==
    IF ~Falsy(InfoEntry(cls, model)) THEN InfoEntry(cls, model)
    ELSE IF InfoEntry(cls, "default") = LAbsent THEN "KeyError"
    ELSE InfoEntry(cls, "default")

\* cls.model_infos.get(model) or cls.model_infos.get(cls.default_model)
\*                             or cls.model_infos["default"]
ModelInfoFallback(cls, model) ==
    IF ~Falsy(InfoEntry(cls, model)) THEN InfoEntry(cls, model)
    ELSE IF ~Falsy(InfoEntry(cls, cls.default_model))
    THEN InfoEntry(cls, cls.default_model)
    ELSE IF InfoEntry(cls, "default") = LAbsent THEN "KeyError"
    ELSE InfoEntry(cls, "default")

\* LLMConfig.get_agent_config(agent_name, api_key=api_key, **overrides)
GetAgentConfigResult(cls, api_key, overrides) ==
    IF overrides["api_key"] # LAbsent
    THEN LlmRaise("TypeError")   \* api_key is passed twice
    ELSE
    LET model == IF overrides["model"] # LAbsent THEN overrides["model"]
                 ELSE IF ~Falsy(cls.agent_model) THEN cls.agent_model
                 ELSE cls.default_model
        key   == IF ~Falsy(api_key) THEN api_key ELSE cls.api_key
        info  == ModelInfoFallback(cls, model)
        config ==
            [k \in ConfigKeys |->
                CASE k = "model" -> model
                  [] k = "temperature" ->
                        IF overrides[k] # LAbsent THEN overrides[k] ELSE "0.3"
                  [] k = "api_key" -> key
                  [] k = "base_url" ->
                        IF overrides[k] # LAbsent THEN overrides[k]
                        ELSE IF ~Falsy(cls.base_url) THEN cls.base_url ELSE LAbsent
                  [] k = "model_info" ->
                        IF overrides[k] # LAbsent THEN overrides[k] ELSE info
                  [] OTHER -> overrides[k]]
    IN  IF Falsy(key) THEN LlmRaise("ValueError")
        ELSE IF info = "KeyError" THEN LlmRaise("KeyError")
        ELSE LlmConfigOf(config)

\* a build_model_client that forwards the config as it is
BuildModelClientForwarding(config, available) ==
    IF ~available THEN LlmRaise("RuntimeError")
    ELSE IF Falsy(config["api_key"]) THEN LlmRaise("ValueError")
    ELSE [kind |-> "client", config |-> config, error |-> "none"]

\* LLMConfig.build_model_client(config): the keyword arguments the client is
\* constructed with
BuildModelClientResult(config, available) ==
    IF ~available THEN LlmRaise("RuntimeError")
    ELSE LET cfg == [config EXCEPT !["model_info"] = LAbsent] IN
         IF Falsy(cfg["api_key"]) THEN LlmRaise("ValueError")
         ELSE [kind |-> "client", config |-> cfg, error |-> "none"]

\* LLMConfig.build_model_client(config): the caller's mapping after the
\* call; the entry is popped from the copy cfg = dict(config)
ConfigAfterBuild(config) == config

\* BaseAgent.__init__: self.llm_config
BaseAgentConfig(cls, api_key, llm_config) ==
    IF llm_config.type = "dict"
    THEN IF llm_config.dict["model_info"] # LAbsent /\ llm_config.dict["model"] # LAbsent
         THEN LlmConfigOf(llm_config.dict)
         ELSE GetAgentConfigResult(cls, api_key, llm_config.dict)
    ELSE GetAgentConfigResult(cls, api_key,
            IF llm_config.type = "str"
            THEN [EmptyDict EXCEPT !["model"] = llm_config.text]
            ELSE EmptyDict)

GetAgentConfig ==
    /\ llm_call.op = "none"
    /\ llm_call.llm_config.type = "dict"
    /\ llm_call' = [llm_call EXCEPT
                      !.op = "get_agent_config",
                      !.ret = GetAgentConfigResult(llm_class, llm_call.api_key,
                                                   llm_call.llm_config.dict)]
    /\ UNCHANGED <<llm_class, llmFrame>>

BuildModelClient ==
    /\ llm_call.op = "none"
    /\ llm_call.llm_config.type = "dict"
    /\ \E available \in BOOLEAN :
          llm_call' = [llm_call EXCEPT
                         !.op = "build_model_client",
                         !.after = ConfigAfterBuild(llm_call.llm_config.dict),
                         !.ret = BuildModelClientResult(llm_call.llm_config.dict,
                                                        available)]
    /\ UNCHANGED <<llm_class, llmFrame>>

\* BaseAgent(name, system_message, llm_config, api_key): self.llm_config,
\* then _create_agent, which builds a model client when the engine's agent
\* class takes one
BaseAgentInit ==
    /\ llm_call.op = "none"
    /\ \E takes_client \in BOOLEAN, available \in BOOLEAN :
          LET cfg == BaseAgentConfig(llm_class, llm_call.api_key, llm_call.llm_config) IN
          llm_call' = [llm_call EXCEPT
                         !.op = "BaseAgent",
                         !.ret = cfg,
                         !.created =
                            IF cfg.kind = "raise" THEN cfg
                            ELSE IF takes_client
                            THEN BuildModelClientResult(cfg.config, available)
                            ELSE cfg]
    /\ UNCHANGED <<llm_class, llmFrame>>

InitLlmConfig ==
    /\ llm_class \in LlmClasses
    /\ \E k \in {LNone, "arg-key"}, c \in LlmConfigArgs :
          llm_call = [NoLlmCall EXCEPT !.api_key = k, !.llm_config = c]
    /\ LlmFrameIdle

NextLlmConfig == GetAgentConfig \/ BuildModelClient \/ BaseAgentInit
SpecLlmConfig == InitLlmConfig /\ [][NextLlmConfig]_vars


\* The model get_agent_config is documented to return.
ExpectedModel(cls, overrides) ==
    IF overrides["model"] # LAbsent THEN overrides["model"]
    ELSE IF cls.agent_model # LAbsent THEN cls.agent_model
    ELSE cls.default_model

\* C17 (as stated): the returned model_info is the entry of the requested
\* model if one exists, otherwise the entry of the default model, otherwise
\* the "default" entry; the returned model is the override if given, else
\* the agent-specific model, else the default model.
C17_Original ==
    (llm_call.op = "get_agent_config" /\ llm_call.ret.kind = "config") =>
        LET overrides == llm_call.llm_config.dict
            model == ExpectedModel(llm_class, overrides)
        IN  /\ llm_call.ret.config["model"] = model
            /\ llm_call.ret.config["model_info"] =
                  IF InfoEntry(llm_class, model) # LAbsent
                  THEN InfoEntry(llm_class, model)
                  ELSE IF InfoEntry(llm_class, llm_class.default_model) # LAbsent
                  THEN InfoEntry(llm_class, llm_class.default_model)
                  ELSE InfoEntry(llm_class, "default")

\* C17 (amended): a model_info among the overrides is returned as given;
\* otherwise the returned model_info is the first non-empty entry among
\* the requested model's, the default model's and the "default" one (the
\* "default" entry is returned even when empty); the returned model is the
\* override if given, else the agent-specific model, else the default model.
C17_Amended ==
    (llm_call.op = "get_agent_config" /\ llm_call.ret.kind = "config") =>
        LET overrides == llm_call.llm_config.dict
            model == ExpectedModel(llm_class, overrides)
            own == InfoEntry(llm_class, model)
            dflt == InfoEntry(llm_class, llm_class.default_model)
        IN  /\ llm_call.ret.config["model"] = model
            /\ llm_call.ret.config["model_info"] =
                  IF overrides["model_info"] # LAbsent THEN overrides["model_info"]
                  ELSE IF own \notin {LAbsent, "{}"} THEN own
                  ELSE IF dflt \notin {LAbsent, "{}"} THEN dflt
                  ELSE InfoEntry(llm_class, "default")

\* C17 witness: an unknown model was requested and the default model's
\* information came back although a "default" entry exists.
C17_Witness ==
    /\ llm_call.op = "get_agent_config"
    /\ llm_call.ret.kind = "config"
    /\ llm_call.llm_config.dict["model"] = "custom-model"
    /\ llm_class.model_infos["custom-model"] = LAbsent
    /\ llm_class.model_infos["default"] = "info"
    /\ llm_call.ret.config["model"] = "custom-model"
    /\ llm_call.ret.config["model_info"] = "info of fallback-model"


\* C18: build_model_client constructs the client with exactly the entries
\* of the given config except model_info, leaves the caller's mapping as it
\* was, and raises instead of returning a client when the config has no
\* API key.
C18_ModelInfoNotForwarded ==
    llm_call.op = "build_model_client" =>
        LET config == llm_call.llm_config.dict IN
        /\ llm_call.after = config
        /\ llm_call.ret.kind \in {"client", "raise"}
        /\ llm_call.ret.kind = "client" =>
              /\ llm_call.ret.config["model_info"] = LAbsent
              /\ \A k \in ConfigKeys \ {"model_info"} :
                    llm_call.ret.config[k] = config[k]
        /\ config["api_key"] \in {LAbsent, ""} => llm_call.ret.kind = "raise"

\* C18 witness: a client was built from a config that holds model_info.
C18_Witness ==
    /\ llm_call.op = "build_model_client"
    /\ llm_call.ret.kind = "client"
    /\ llm_call.llm_config.dict["model_info"] = "info given"
    /\ llm_call.after["model_info"] = "info given"
    /\ llm_call.ret.config["model"] = "custom-model"


\* C19: with an API key at hand and a "default" entry in model_infos,
\* BaseAgent ends with an llm_config that holds a model and model_info: a
\* model name becomes the model among the defaults; the entries of a dict
\* lacking model or model_info override the defaults, model_info being
\* filled in by fallback; a dict holding both is used as given.
C19_ConfigNormalized ==
    ( /\ llm_call.op = "BaseAgent"
      /\ (llm_call.api_key # LNone \/ llm_class.api_key # "")
      /\ llm_class.model_infos["default"] # LAbsent ) =>
        LET given == llm_call.llm_config
            config == llm_call.ret.config
            model == IF given.type = "str" THEN given.text
                     ELSE ExpectedModel(llm_class, given.dict)
        IN  /\ llm_call.ret.kind = "config"
            /\ config["model"] # LAbsent
            /\ config["model_info"] # LAbsent
            /\ given.type = "str" =>
                  /\ config["model"] = given.text
                  /\ config["temperature"] = "0.3"
                  /\ config["model_info"] = ModelInfoFallback(llm_class, model)
            /\ (given.type = "dict" /\ given.dict["model"] # LAbsent
                                    /\ given.dict["model_info"] # LAbsent) =>
                  config = given.dict
            /\ (given.type = "dict" /\ (given.dict["model"] = LAbsent
                                        \/ given.dict["model_info"] = LAbsent)) =>
                  /\ \A k \in ConfigKeys :
                        given.dict[k] # LAbsent => config[k] = given.dict[k]
                  /\ given.dict["model_info"] = LAbsent =>
                        config["model_info"] = ModelInfoFallback(llm_class, model)


-----------------------------------------------------------------------------
(* run_python of api/tools.py: the pattern screen, the temporary file and  *)
(* the subprocess with its timeout.                                        *)

\* \s of the regular expressions, and the characters str.strip() removes
RegexSpace == Whitespace \cup {"\r", "\f"}

\* \w of the regular expressions
WordChars ==
    {UpperChars[i] : i \in DOMAIN UpperChars} \cup {LowerChars[i] : i \in DOMAIN LowerChars}
    \cup {"0", "1", "2", "3", "4", "5", "6", "7", "8", "9", "_"}

\* p occurs in s at position i
OccursAt(s, p, i) == i >= 1 /\ i + Len(p) - 1 <= Len(s) /\ SubSeq(s, i, i + Len(p) - 1) = p

\* \b between positions i - 1 and i of s
WordBoundary(s, i) ==
    LET before == i > 1 /\ i - 1 <= Len(s) /\ s[i - 1] \in WordChars
        after  == i >= 1 /\ i <= Len(s) /\ s[i] \in WordChars
    IN  before # after

\* the positions j >= i such that s[i .. j - 1] is whitespace only
AfterSpaces(s, i) ==
    {j \in i .. Len(s) + 1 : \A k \in i .. j - 1 : s[k] \in RegexSpace}

\* re.search(r"\bimport\s+<word>\b", s)
MatchesImport(s, word) ==
    \E i \in 1 .. Len(s) :
        /\ WordBoundary(s, i)
        /\ OccursAt(s, <<"i","m","p","o","r","t">>, i)
        /\ \E j \in AfterSpaces(s, i + 6) \ {i + 6} :
              OccursAt(s, word, j) /\ WordBoundary(s, j + Len(word))

\* re.search(r"\bopen\s*\(", s)
MatchesOpen(s) ==
    \E i \in 1 .. Len(s) :
        /\ WordBoundary(s, i)
        /\ OccursAt(s, <<"o","p","e","n">>, i)
        /\ \E j \in AfterSpaces(s, i + 4) : OccursAt(s, <<"(">>, j)

\* re.search(r"__import__\s*\(", s)
MatchesDunderImport(s) ==
    \E i \in 1 .. Len(s) :
        /\ OccursAt(s, <<"_","_","i","m","p","o","r","t","_","_">>, i)
        /\ \E j \in AfterSpaces(s, i + 10) : OccursAt(s, <<"(">>, j)

\* the modules named in _DISALLOWED_PATTERNS
DisallowedImports == {<<"o","s">>, <<"s","y","s">>, <<"s","u","b","p","r","o","c","e","s","s">>, <<"s","o","c","k","e","t">>, <<"h","t","t","p">>, <<"r","e","q","u","e","s","t","s">>}

\* some pattern of _DISALLOWED_PATTERNS is found in the code
Disallowed(s) ==
    \/ \E w \in DisallowedImports : MatchesImport(s, w)
    \/ MatchesOpen(s)
    \/ MatchesDunderImport(s)

\* an emptiness test without the strip()
EmptyCodeNoStrip(code) == ~code.is_str \/ code.text = <<>>

\* not isinstance(code, str) or len(code.strip()) == 0
EmptyCode(code) == ~code.is_str \/ \A i \in 1 .. Len(code.text) : code.text[i] \in RegexSpace

\* code.replace("\r\n", "\n")
RECURSIVE NormalizeNewlines(_)
NormalizeNewlines(s) ==
    IF s = <<>> THEN <<>>
    ELSE IF Len(s) >= 2 /\ s[1] = "\r" /\ s[2] = "\n"
    THEN <<"\n">> \o NormalizeNewlines(SubSeq(s, 3, Len(s)))
    ELSE <<s[1]>> \o NormalizeNewlines(Tail(s))

CodeTexts ==
    {<<>>,
     <<" ">>,
     <<"\n"," ","\t">>,
     <<"\r","\n">>,
     <<"p","r","i","n","t","(","1",")">>,
     <<"p","r","i","n","t","(","1",")","\r","\n">>,
     <<"i","m","p","o","r","t"," ","m","a","t","h">>,
     <<"i","m","p","o","r","t"," ","o","s">>,
     <<"i","m","p","o","r","t"," "," ","o","s">>,
     <<"i","m","p","o","r","t","\n","o","s">>,
     <<"i","m","p","o","r","t","\r","\n","o","s">>,
     <<"i","m","p","o","r","t"," ","o","s",".","p","a","t","h">>,
     <<"i","m","p","o","r","t"," ","o","s","s","i","f","y">>,
     <<"m","y","i","m","p","o","r","t"," ","o","s">>,
     <<"f","r","o","m"," ","o","s"," ","i","m","p","o","r","t"," ","p","a","t","h">>,
     <<"i","m","p","o","r","t"," ","s","y","s">>,
     <<"i","m","p","o","r","t"," ","s","u","b","p","r","o","c","e","s","s">>,
     <<"i","m","p","o","r","t"," ","s","o","c","k","e","t">>,
     <<"i","m","p","o","r","t"," ","h","t","t","p">>,
     <<"i","m","p","o","r","t"," ","r","e","q","u","e","s","t","s">>,
     <<"x","=","1",";","i","m","p","o","r","t"," ","o","s">>,
     <<"o","p","e","n","(","'","f","'",")">>,
     <<"o","p","e","n"," ","(","'","f","'",")">>,
     <<"r","e","o","p","e","n","(","1",")">>,
     <<"f",".","o","p","e","n","(","1",")">>,
     <<"_","_","i","m","p","o","r","t","_","_","(","'","o","s","'",")">>,
     <<"x","_","_","i","m","p","o","r","t","_","_"," ","(","1",")">>,
     <<"i","m","p","o","r","t","o","s">>}

\* the code argument: a str, or a value that is no str
Codes == {[is_str |-> TRUE, text |-> c] : c \in CodeTexts} \cup {[is_str |-> FALSE, text |-> <<>>]}

\* the timeout_sec argument: an int or a float (in tenths), None, or a text
\* that is no number
TimeoutSecs ==
    {[type |-> "int", tenths |-> 30], [type |-> "int", tenths |-> 0],
     [type |-> "int", tenths |-> -50], [type |-> "float", tenths |-> 29],
     [type |-> "float", tenths |-> 5], [type |-> "None", tenths |-> 0],
     [type |-> "str", tenths |-> 0]}

\* int(timeout_sec) raises
IntRaises(t) == t.type \in {"None", "str"}

\* int(timeout_sec): truncation towards zero
IntOf(t) == IF t.tenths >= 0 THEN t.tenths \div 10 ELSE -((-t.tenths) \div 10)

\* what subprocess.run does: the child exits in time, it is still running
\* when the timeout expires, the interpreter cannot be started, or the
\* child's output cannot be decoded
ChildOutcomes == {"exits", "hangs", "cannot_start", "undecodable"}

PyError(e) == [kind |-> "error", error |-> e, timed_out |-> FALSE, exit_code |-> "none"]
PyResult(timed_out, exit_code) ==
    [kind |-> "result", error |-> "none", timed_out |-> timed_out, exit_code |-> exit_code]

\* run_python(code, timeout_sec=...) with a child that behaves as given
RunPythonResult(call, child) ==
    IF EmptyCode(call.code) THEN [call EXCEPT !.called = TRUE, !.ret = PyError("Empty code")]
    ELSE IF Disallowed(call.code.text)
    THEN [call EXCEPT !.called = TRUE, !.ret = PyError("Disallowed pattern")]
    ELSE LET written == [call EXCEPT !.called = TRUE,
                                     !.written = <<NormalizeNewlines(call.code.text)>>] IN
         IF IntRaises(call.timeout_sec)
         THEN [written EXCEPT !.ret = PyError("Run error")]
         ELSE LET started == [written EXCEPT !.timeout = Max(1, IntOf(call.timeout_sec))] IN
              CASE child = "cannot_start" -> [started EXCEPT !.ret = PyError("Run error")]
                [] child = "undecodable" ->
                      [started EXCEPT !.started = 1, !.ret = PyError("Run error")]
                [] child = "hangs" ->
                      [started EXCEPT !.started = 1, !.expired = TRUE,
                                      !.ret = PyResult(TRUE, "none")]
                [] OTHER ->
                      [started EXCEPT !.started = 1, !.ret = PyResult(FALSE, "returncode")]

RunPython ==
    /\ ~py_call.called
    /\ \E child \in ChildOutcomes : py_call' = RunPythonResult(py_call, child)
    /\ UNCHANGED pyFrame

InitRunPython ==
    /\ \E c \in Codes, t \in TimeoutSecs :
          py_call = [NoPyCall EXCEPT !.code = c, !.timeout_sec = t]
    /\ PyFrameIdle

NextRunPython == RunPython
SpecRunPython == InitRunPython /\ [][NextRunPython]_vars

\* the input is blocked: empty, whitespace only, or matching a pattern
Blocked(code) ==
    \/ ~code.is_str
    \/ code.text = <<>>
    \/ \A i \in 1 .. Len(code.text) : code.text[i] \in RegexSpace
    \/ Disallowed(code.text)

\* C20 (as stated): blocked input gives an error result, writes no file and
\* starts no subprocess; any other input runs exactly one subprocess with a
\* timeout of at least one second, and the result has timed_out = true and
\* no exit code exactly when that timeout expired.
C20_Original ==
    py_call.called =>
        IF Blocked(py_call.code)
        THEN py_call.ret.kind = "error" /\ py_call.written = <<>> /\ py_call.started = 0
        ELSE /\ py_call.started = 1
             /\ py_call.timeout >= 1
             /\ (py_call.ret.kind = "result" /\ py_call.ret.timed_out
                    /\ py_call.ret.exit_code = "none") <=> py_call.expired

\* C20 (amended): blocked input gives an error result, writes no file and
\* starts no subprocess; any other input is written to a file and at most
\* one subprocess is run, with a timeout of at least one second; none is
\* run, and an error result is returned, when timeout_sec does not convert
\* to an integer or the interpreter cannot be started; the result has
\* timed_out = true and no exit code exactly when the timeout expired.
C20_Amended ==
    py_call.called =>
        IF Blocked(py_call.code)
        THEN py_call.ret.kind = "error" /\ py_call.written = <<>> /\ py_call.started = 0
        ELSE /\ Len(py_call.written) = 1
             /\ py_call.started <= 1
             /\ py_call.started = 1 => py_call.timeout >= 1
             /\ py_call.started = 0 => py_call.ret.kind = "error"
             /\ (~IntRaises(py_call.timeout_sec) /\ py_call.ret.kind = "result") =>
                    py_call.started = 1
             /\ IntRaises(py_call.timeout_sec) => py_call.started = 0
             /\ (py_call.ret.kind = "result" /\ py_call.ret.timed_out
                    /\ py_call.ret.exit_code = "none") <=> py_call.expired

\* C20 witness: a code that passes the screen ran with a timeout raised to
\* one second and the timeout expired.
C20_Witness ==
    /\ py_call.called
    /\ ~Blocked(py_call.code)
    /\ py_call.timeout_sec = [type |-> "int", tenths |-> -50]
    /\ py_call.started = 1
    /\ py_call.timeout = 1
    /\ py_call.expired
    /\ py_call.ret = PyResult(TRUE, "none")

-----------------------------------------------------------------------------
(* The start of a group chat: _build_pattern and _run_group_chat of        *)
(* chat_controller.py up to initiate_chat, for any roster, any prepared    *)
(* history and any speaker the engine's resume reports.                    *)

\* Rosters of named agents: with and without Info_Agent, in several orders.
StartRosters ==
    {<<>>,
     <<Named("Info_Agent")>>,
     <<Named("Math_Expert"), Named("Physics_Expert")>>,
     <<Named("Info_Agent"), Named("Math_Expert"), Named("Physics_Expert")>>,
     <<Named("Physics_Expert"), Named("Math_Expert"), Named("Info_Agent")>>,
     <<Named("CS_Expert"), Named("Info_Agent"), Named("English_Expert")>>,
     DefaultRoster}

\* What pattern.prepare_group_chat hands back: the number of processed
\* messages (none, the incoming one, or a history), and the last agent
\* (none, or the pattern's initial agent).
PreparedChats == [len : {0, 1, 2}, last_agent : {"None", "initial"}]

\* The speaker manager.resume reports: an agent of the chat.
ResumeReports == {"Physics_Expert", "Info_Agent"}

\* _build_pattern: the initial agent, next(a for a in agents if a.name ==
\* "Info_Agent"); the generator is exhausted when there is none
InitialAgent(agents) ==
    IF FirstNamed(agents, "Info_Agent") = 0 THEN "StopIteration" ELSE "Info_Agent"

\* the name of the agent _determine_best_agent returns, "None" for None
SuggestedAgent(message, agents) ==
    LET i == DetermineBestAgent(message, agents) IN
    IF i = 0 THEN "None" ELSE agents[i].name

\* a start that does not take the router's suggestion
NoSuggestion(suggested, last_agent, len) == last_agent

\* if suggested_agent and len(processed_messages) <= 1: last_agent = suggested_agent
SuggestedStart(suggested, last_agent, len) ==
    IF suggested # "None" /\ len <= 1 THEN suggested ELSE last_agent

\* a start that does not ask the engine
AfterResumeKeep(last_agent, len, reported) == last_agent

\* if len(processed_messages) > 1: last_agent, last_message = manager.resume(...)
AfterResume(last_agent, len, reported) ==
    IF len > 1 THEN reported ELSE last_agent

\* if last_agent is None: the first agent named Info_Agent, or ValueError
FallbackAgent(last_agent, agents) ==
    IF last_agent # "None" THEN last_agent
    ELSE IF FirstNamed(agents, "Info_Agent") # 0 THEN "Info_Agent"
    ELSE "ValueError"

GcRaise(e) == [NoGcReturn EXCEPT !.kind = "raise", !.error = e]

\* _build_pattern(agents, ...) followed by _run_group_chat(pattern, message,
\* max_rounds), up to the arguments of initiate_chat
RunGroupChatResult(call) ==
    LET initial == InitialAgent(call.agents) IN
    IF initial = "StopIteration" THEN GcRaise("StopIteration")
    ELSE
    LET prepared_last == IF call.prepared.last_agent = "None" THEN "None" ELSE initial
        suggested == SuggestedAgent(call.message, call.agents)
        first     == SuggestedStart(suggested, prepared_last, call.prepared.len)
        resumed   == AfterResume(first, call.prepared.len, call.resumed)
        speaker   == FallbackAgent(resumed, call.agents)
    IN  IF speaker = "ValueError" THEN GcRaise("ValueError")
        ELSE [kind |-> "started", error |-> "none", speaker |-> speaker,
              clear_history |-> ~(call.prepared.len > 1),
              max_turns |-> Min(call.max_rounds, GroupChatCeiling)]

StartGroupChat ==
    /\ ~gc_call.called
    /\ gc_call' = [gc_call EXCEPT !.called = TRUE, !.ret = RunGroupChatResult(gc_call)]
    /\ UNCHANGED gcFrame

InitGroupChat ==
    /\ \E m \in RouterMessages, r \in StartRosters, n \in RequestedRounds,
          p \in PreparedChats, e \in ResumeReports :
          gc_call = [NoGcCall EXCEPT !.message = m, !.agents = r, !.max_rounds = n,
                                     !.prepared = p, !.resumed = e]
    /\ GcFrameIdle

NextGroupChat == StartGroupChat
SpecGroupChat == InitGroupChat /\ [][NextGroupChat]_vars

\* Some expert of the roster has a nonzero keyword score for the message.
SomeExpertScores(message, agents) ==
    \E i \in 1..Len(agents) :
        Scored(agents[i]) /\ ScoreOf[agents[i].name][message] > 0

\* C21: when the prepared history has more than one message and the chat
\* starts, the speaker is the one the engine's resume reported, not the
\* router's pick, and clear_history is false, also when the router has a
\* pick for the message.
C21_ResumeKeepsSpeaker ==
    (gc_call.called /\ gc_call.prepared.len > 1 /\ gc_call.ret.kind = "started") =>
        /\ gc_call.ret.speaker = gc_call.resumed
        /\ ~gc_call.ret.clear_history

\* C21 witness: a resumed chat for which the router has a pick that is not
\* the speaker the engine reported.
C21_Witness ==
    /\ gc_call.called
    /\ gc_call.prepared.len > 1
    /\ gc_call.ret.kind = "started"
    /\ SuggestedAgent(gc_call.message, gc_call.agents) = "Math_Expert"
    /\ gc_call.resumed = "Physics_Expert"
    /\ gc_call.ret.speaker = "Physics_Expert"

-----------------------------------------------------------------------------
(* The termination predicate registered for the recipients:                *)
(* is_termination_msg of create_team (team_builder.py) and of              *)
(* _run_group_chat (chat_controller.py).                                   *)

SentinelTerminate == <<"T","E","R","M","I","N","A","T","E">>
SentinelKetThuc   == <<"K","Ế","T"," ","T","H","Ú","C">>
PhraseHoanThanh   == <<"h","o","à","n"," ","t","h","à","n","h">>
PhraseCompleted   == <<"c","o","m","p","l","e","t","e","d">>

TerminationTexts ==
    {<<>>,
     <<" "," "," ">>,
     <<"T","E","R","M","I","N","A","T","E">>,
     <<"T","E","R","M","I","N","A","T","E"," ","\n">>,
     <<" "," ","T","E","R","M","I","N","A","T","E">>,
     <<"X","o","n","g","."," ","T","E","R","M","I","N","A","T","E">>,
     <<"t","e","r","m","i","n","a","t","e">>,
     <<"T","e","r","m","i","n","a","t","e">>,
     <<"T","E","R","M","I","N","A","T","E"," ","n","o","w">>,
     <<"T","E","R","M","I","N","A","T","E","D">>,
     <<"K","Ế","T"," ","T","H","Ú","C">>,
     <<"B","à","i"," ","g","i","ả","i"," ","x","o","n","g","."," ","K","Ế","T"," ","T","H","Ú","C","\n">>,
     <<"\t","K","Ế","T"," ","T","H","Ú","C">>,
     <<"k","ế","t"," ","t","h","ú","c">>,
     <<"K","Ế","T"," ","T","H","Ú","C",".">>,
     <<"K","Ế","T"," "," ","T","H","Ú","C">>,
     <<"h","o","à","n"," ","t","h","à","n","h">>,
     <<"B","à","i"," ","t","ậ","p"," ","H","O","À","N"," ","T","H","À","N","H"," ","r","ồ","i">>,
     <<"H","o","à","n"," ","T","h","à","n","h","!">>,
     <<"h","o","à","n"," "," ","t","h","à","n","h">>,
     <<"h","o","à","n","\n","t","h","à","n","h">>,
     <<"h","o","a","n"," ","t","h","a","n","h">>,
     <<"c","o","m","p","l","e","t","e","d">>,
     <<"T","a","s","k"," ","C","o","m","p","l","e","t","e","d",".">>,
     <<"C","O","M","P","L","E","T","E","D">>,
     <<" ","c","o","m","p","l","e","t","e","d"," ">>,
     <<"c","o","m","p","l","e","t","e">>,
     <<"i","n","c","o","m","p","l","e","t","e","d"," ","w","o","r","k">>,
     <<"T","h","e"," ","a","n","s","w","e","r"," ","i","s"," ","4">>,
     <<"x"," ","="," ","2","?">>,
     <<"T","E","R","M","I","N","A","T","E","\t","K","Ế","T">>,
     <<"E","N","D">>}

\* The messages the predicate is asked about: a dict whose content is a
\* str, is missing, is None or is a number.
TerminationMsgs ==
    {DictMsg(PyStr(s)) : s \in TerminationTexts} \cup {DictMsg(Absent), DictMsg(PyNone), DictMsg(PyInt)}

\* a create_team predicate that compares the phrases without lower()
TeamIsTerminationMsgCased(msg) ==
    LET content == GetContent(msg) IN
    IF content.tag # "str" THEN FALSE
    ELSE LET text == Strip(content.text) IN
         \/ EndsWith(text, SentinelTerminate)
         \/ EndsWith(text, SentinelKetThuc)
         \/ Contains(text, PhraseHoanThanh)
         \/ Contains(text, PhraseCompleted)

\* create_team.is_termination_msg
TeamIsTerminationMsg(msg) ==
    LET content == GetContent(msg) IN
    IF content.tag # "str" THEN FALSE
    ELSE LET text == Strip(content.text)
             low  == Lower(text)
         IN  \/ EndsWith(text, SentinelTerminate)
             \/ EndsWith(text, SentinelKetThuc)
             \/ Contains(low, PhraseHoanThanh)
             \/ Contains(low, PhraseCompleted)

\* _run_group_chat.is_termination_msg
ControllerIsTerminationMsg(msg) ==
    LET content == GetContent(msg) IN
    IF content.tag = "str"
    THEN LET content_stripped == RStrip(content.text) IN
         \/ EndsWith(content_stripped, SentinelTerminate)
         \/ EndsWith(content_stripped, SentinelKetThuc)
         \/ Contains(Lower(content_stripped), PhraseHoanThanh)
         \/ Contains(Lower(content_stripped), PhraseCompleted)
    ELSE FALSE

Verdict(b) == IF b THEN "True" ELSE "False"

\* the recipient registered by create_team is asked
AskTeam ==
    /\ tm_call.team = "none"
    /\ tm_call' = [tm_call EXCEPT !.team = Verdict(TeamIsTerminationMsg(tm_call.message))]
    /\ UNCHANGED tmFrame

\* the manager of _run_group_chat is asked
AskController ==
    /\ tm_call.controller = "none"
    /\ tm_call' = [tm_call EXCEPT
                     !.controller = Verdict(ControllerIsTerminationMsg(tm_call.message))]
    /\ UNCHANGED tmFrame

InitTerminationMsg ==
    /\ \E m \in TerminationMsgs : tm_call = [NoTmCall EXCEPT !.message = m]
    /\ TmFrameIdle

NextTerminationMsg == AskTeam \/ AskController
SpecTerminationMsg == InitTerminationMsg /\ [][NextTerminationMsg]_vars

\* s without its trailing whitespace ends with p
EndsAfterTrim(s, p) ==
    \E n \in Len(p)..Len(s) :
        /\ \A k \in (n + 1)..Len(s) : s[k] \in Whitespace
        /\ (n > 0 => s[n] \notin Whitespace)
        /\ SubSeq(s, n - Len(p) + 1, n) = p

\* C23: each of the two predicates flags a message exactly when its content
\* is a string that, without trailing whitespace, ends with "TERMINATE" or
\* "KẾT THÚC", or contains "hoàn thành" or "completed" whatever the case;
\* so the two give the same verdict.
C23_TerminationPredicate ==
    LET content == tm_call.message.content
        terminal ==
            /\ content.tag = "str"
            /\ \/ EndsAfterTrim(content.text, SentinelTerminate)
               \/ EndsAfterTrim(content.text, SentinelKetThuc)
               \/ OccursIgnoringCase(PhraseHoanThanh, content.text)
               \/ OccursIgnoringCase(PhraseCompleted, content.text)
    IN  /\ tm_call.team # "none" => tm_call.team = Verdict(terminal)
        /\ tm_call.controller # "none" => tm_call.controller = Verdict(terminal)
        /\ (tm_call.team # "none" /\ tm_call.controller # "none") =>
               tm_call.team = tm_call.controller

\* C23 witness: both predicates flagged a message that holds no sentinel and
\* holds a phrase only in another case.
C23_Witness ==
    /\ tm_call.team = "True" /\ tm_call.controller = "True"
    /\ tm_call.message.content.tag = "str"
    /\ ~Contains(tm_call.message.content.text, PhraseCompleted)
    /\ ~Contains(tm_call.message.content.text, PhraseHoanThanh)
    /\ ~EndsAfterTrim(tm_call.message.content.text, SentinelTerminate)
    /\ ~EndsAfterTrim(tm_call.message.content.text, SentinelKetThuc)

-----------------------------------------------------------------------------
(* The order in which _extract_final_result chooses its text.              *)

\* The message is a dict whose content is a string that, trimmed, is
\* non-empty, does not start with "[" and is longer than 10 characters.
NonTrivial(msg) ==
    /\ msg.isdict
    /\ msg.content.tag = "str"
    /\ Strip(msg.content.text) # <<>>
    /\ Strip(msg.content.text)[1] # "["
    /\ Len(Strip(msg.content.text)) > 10

\* The message is a dict whose content is neither empty nor a string.
NotText(msg) == msg.isdict /\ msg.content.tag = "int"

\* Sentinels removed and the ends trimmed; the fallback message for a text
\* shorter than 5 characters.
Finished(text) ==
    LET cleaned == Strip(Replace(Replace(text, TERMINATE), KET_THUC)) IN
    IF Len(cleaned) < 5 THEN FALLBACK_MESSAGE ELSE cleaned

HasSummary(r) == r.summary.tag \in {"str", "int"} /\ r.summary.text # <<>>

\* C24 (as stated): a plain string is used as is; otherwise a non-empty
\* summary; otherwise the last message of the history whose trimmed content
\* is non-empty, does not start with "[" and is longer than 10 characters;
\* otherwise the stringified result.  The text is replaced by the fallback
\* message exactly when, sentinels stripped, it is shorter than 5 characters.
C24_Original ==
    final_result.by = "chat_service" =>
        LET r == result
            h == r.chat_history
            found == {i \in 1..Len(h) : NonTrivial(h[i])}
            chosen ==
                IF r.kind = "str" THEN r.text
                ELSE IF HasSummary(r) THEN r.summary.text
                ELSE IF r.has_history /\ found # {}
                THEN h[CHOOSE i \in found : \A j \in found : j <= i].content.text
                ELSE r.text
        IN  final_result.text = Finished(chosen)

\* C24 (amended): a plain string is used as is; otherwise a non-empty
\* summary, also when a history is present; otherwise the history is
\* scanned from the end backward: the scan stops at the first message that
\* is non-trivial, which is used, or whose content is not a string, in
\* which case the result is stringified; when the scan finds neither, the
\* content of the last message is stringified (the result, if that message
\* is no dict); with no history the result is stringified.  The text is
\* replaced by the fallback message exactly when, sentinels stripped, it is
\* shorter than 5 characters.
C24_Amended ==
    final_result.by = "chat_service" =>
        LET r == result
            h == r.chat_history
            stops == {i \in 1..Len(h) : NonTrivial(h[i]) \/ NotText(h[i])}
            stop == CHOOSE i \in stops : \A j \in stops : j <= i
            chosen ==
                IF r.kind = "str" THEN r.text
                ELSE IF HasSummary(r) THEN r.summary.text
                ELSE IF ~r.has_history \/ h = <<>> THEN r.text
                ELSE IF stops # {}
                THEN IF NonTrivial(h[stop]) THEN h[stop].content.text ELSE r.text
                ELSE IF ~h[Len(h)].isdict THEN r.text
                ELSE IF h[Len(h)].content.tag = "absent" THEN <<>>
                ELSE h[Len(h)].content.text
        IN  final_result.text = Finished(chosen)

\* C24 witness: no summary, and the history ends with a bracketed marker:
\* the message before it was chosen.
C24_Witness ==
    /\ final_result.by = "chat_service"
    /\ result.kind = "obj" /\ ~HasSummary(result)
    /\ Len(result.chat_history) = 2
    /\ result.chat_history[1] = DictMsg(PyStr(FinalAnswer))
    /\ result.chat_history[2] = DictMsg(PyStr(ToolMarker))
    /\ final_result.text = FinalAnswer

-----------------------------------------------------------------------------
(* The order of the update mechanisms.                                     *)

\* The mechanisms of an update in priority order.
Priority(op) ==
    IF op = "create_team"
    THEN <<"update_text", "update_wrapped", "assign">>
    ELSE <<"update_text", "update_wrapped", "field", "content">>

\* The expert offers the mechanism.
Offers(a, m) ==
    CASE m \in {"update_text", "update_wrapped"} -> a.has_update
      [] m = "field" -> a.has_field
      [] m = "content" -> a.system_message \in {"obj", "obj_ro"}
      [] OTHER -> TRUE

\* The mechanism, when used, does not raise.
Works(a, m) ==
    CASE m = "update_text" -> a.on_text = "ok"
      [] m = "update_wrapped" -> a.on_wrapped = "ok"
      [] m = "field" -> a.field_assign = "ok"
      [] m = "content" -> a.system_message = "obj"
      [] OTHER -> a.sm_assign = "ok"

\* The place of a mechanism in the priority order.
Rank(op, m) == CHOOSE k \in DOMAIN Priority(op) : Priority(op)[k] = m

-----------------------------------------------------------------------------
(* The round ceiling of TerminationHandler.should_terminate.               *)

\* C26: a should_terminate call that leaves the round count past max_rounds
\* reports termination, so a run of calls that return False is no longer
\* than max_rounds.
C26_CeilingEndsSession ==
    (th_call.op = "should_terminate" /\ round_count > max_rounds) =>
        th_call.ret = "True"

-----------------------------------------------------------------------------
(* The choice of the subject selector among equally scored experts.        *)

\* The keyword score of a roster agent for a text.
SelectorScoreByName(name, x) ==
    SelectorScoreOf[CHOOSE k \in 1..Len(AgentKeywords) : AgentKeywords[k].name = name][x]

\* C27: when some agent of the roster has a nonzero keyword score for the
\* last message, the selector returns the first agent of the roster whose
\* score is the greatest of the roster.
C27_TieByRosterOrder ==
    ( /\ select_call.called
      /\ select_call.messages # <<>>
      /\ select_call.messages[Len(select_call.messages)].tag = "str"
      /\ \E i \in 1..Len(selector_agents) :
            SelectorScoreByName(selector_agents[i],
                select_call.messages[Len(select_call.messages)].text) > 0 ) =>
        LET x == select_call.messages[Len(select_call.messages)].text
            score(i) == SelectorScoreByName(selector_agents[i], x)
            first == CHOOSE i \in 1..Len(selector_agents) :
                        /\ \A j \in 1..Len(selector_agents) : score(j) <= score(i)
                        /\ \A j \in 1..(i - 1) : score(j) < score(i)
        IN  select_call.ret = Returned(first)

-----------------------------------------------------------------------------
(* The personalization updater: make_personalization_updater of            *)
(* personalization.py, run any number of times on one expert while the     *)
(* context may change between runs.                                        *)

\* Runs of one updater that are followed.
MaxUpdaterRuns == 3

\* Experts by what _set_system_message_text can do with them: the update
\* entrypoint takes the text, the entrypoint raises, or only the internal
\* field can be set, or nothing can.
UpdaterMechanisms ==
    {[NoAgent EXCEPT !.has_update = TRUE],
     [NoAgent EXCEPT !.has_update = TRUE, !.on_text = "Error"],
     [NoAgent EXCEPT !.has_field = TRUE],
     NoAgent}

\* The instruction text before the first run.
UpdaterBases ==
    {<<>>, <<"Y","o","u"," ","a","r","e"," ","a","n"," ","e","x","p","e","r","t",".">>}

\* current.endswith(personalization_msg)
AlreadyPersonalized(current, personalization_msg) ==
    EndsWith(current, personalization_msg)

\* update_with_context(messages): the text the expert holds afterwards and
\* whether the call raised
UpdateWithContextResult(a, context_data) ==
    LET personalization_msg == PersonalizationSuffix(ContextValues(context_data))
        current == a.text
    IN  IF AlreadyPersonalized(current, personalization_msg)
        THEN [text |-> current, raised |-> FALSE]
        ELSE LET new_text == Strip(current \o <<"\n","\n">> \o personalization_msg)
                 set == SetSystemMessageText(a.mechanisms)
             IN  [text |-> IF set.applied # "none" THEN new_text ELSE current,
                  raised |-> set.raised]

UpdateWithContext ==
    /\ pu_call.runs < MaxUpdaterRuns
    /\ LET res == UpdateWithContextResult(pu_agent, pu_call.context_data) IN
       /\ pu_agent' = [pu_agent EXCEPT !.text = res.text]
       /\ pu_call' = [pu_call EXCEPT
                         !.runs = pu_call.runs + 1,
                         !.raised = res.raised,
                         !.first = IF pu_call.runs = 0 THEN res.text ELSE pu_call.first]
    /\ UNCHANGED puFrame

\* the request context is replaced between two runs
ChangeContext ==
    /\ pu_call.runs \in 1..(MaxUpdaterRuns - 1)
    /\ \E cd \in ContextData :
          /\ cd # pu_call.context_data
          /\ pu_call' = [pu_call EXCEPT !.context_data = cd]
    /\ UNCHANGED <<pu_agent, puFrame>>

InitUpdater ==
    /\ \E m \in UpdaterMechanisms, b \in UpdaterBases :
          pu_agent = [mechanisms |-> m, text |-> b]
    /\ \E cd \in ContextData : pu_call = [NoPuCall EXCEPT !.context_data = cd]
    /\ PuFrameIdle

NextUpdater == UpdateWithContext \/ ChangeContext
SpecUpdater == InitUpdater /\ [][NextUpdater]_vars

\* The words every personalization suffix starts with.
SuffixHead == <<"A","l","w","a","y","s"," ","r","e","s","p","o","n","d"," ","i","n"," ">>

\* C28: once the updater has run, further runs leave the instruction text
\* as the first run left it, and the text holds one personalization suffix
\* at most, whatever the context values and also when the context changes
\* between runs.
C28_UpdaterIdempotent ==
    pu_call.runs >= 1 =>
        /\ pu_agent.text = pu_call.first
        /\ Occurrences(pu_agent.text, SuffixHead) <= 1

-----------------------------------------------------------------------------
(* The roster a request is served by.                                      *)

\* C29: a request that supplies a model or a temperature (0 included) is
\* served by a fresh roster built with the supplied values, the missing one
\* defaulted; a request that supplies neither is served by the cached
\* default roster.
C29_FreshRosterForOverrides ==
    \A i \in DOMAIN sessions :
        sessions[i].team # "none" =>
            IF sessions[i].model # "None" \/ sessions[i].temperature # "None"
            THEN /\ sessions[i].team = "fresh"
                 /\ sessions[i].team_config.model =
                       IF sessions[i].model # "None" THEN sessions[i].model
                       ELSE DefaultTeamModel
                 /\ sessions[i].team_config.temperature =
                       IF sessions[i].temperature # "None" THEN sessions[i].temperature
                       ELSE DefaultTeamTemperature
            ELSE sessions[i].team = "cached"

-----------------------------------------------------------------------------
(* ConversationMonitor (chat/termination.py): the statistics kept over the  *)
(* messages of a conversation.  monitor holds the object's fields;          *)
(* monitor_call.updates counts the calls of update, the ones that raised    *)
(* included.                                                               *)

\* The most calls of update in one conversation.
MaxMonitorUpdates == 3

\* content[:100]
ExcerptChars == 100
Excerpt(s) == SubSeq(s, 1, IF Len(s) < ExcerptChars THEN Len(s) ELSE ExcerptChars)

\* topic_keywords, in the order of the dict
TopicKeywords ==
    <<[topic |-> "mathematics",
       keywords |-> {<<"m","a","t","h">>,
                    <<"e","q","u","a","t","i","o","n">>,
                    <<"a","l","g","e","b","r","a">>,
                    <<"c","a","l","c","u","l","u","s">>}],
      [topic |-> "physics",
       keywords |-> {<<"p","h","y","s","i","c","s">>,
                    <<"f","o","r","c","e">>,
                    <<"e","n","e","r","g","y">>,
                    <<"m","o","m","e","n","t","u","m">>}],
      [topic |-> "chemistry",
       keywords |-> {<<"c","h","e","m","i","s","t","r","y">>,
                    <<"r","e","a","c","t","i","o","n">>,
                    <<"e","l","e","m","e","n","t">>,
                    <<"c","o","m","p","o","u","n","d">>}],
      [topic |-> "biology",
       keywords |-> {<<"b","i","o","l","o","g","y">>,
                    <<"c","e","l","l">>,
                    <<"d","n","a">>,
                    <<"e","v","o","l","u","t","i","o","n">>}],
      [topic |-> "programming",
       keywords |-> {<<"c","o","d","e">>,
                    <<"a","l","g","o","r","i","t","h","m">>,
                    <<"p","r","o","g","r","a","m","m","i","n","g">>,
                    <<"f","u","n","c","t","i","o","n">>}],
      [topic |-> "literature",
       keywords |-> {<<"e","s","s","a","y">>,
                    <<"p","o","e","m">>,
                    <<"w","r","i","t","i","n","g">>,
                    <<"a","n","a","l","y","s","i","s">>}],
      [topic |-> "english",
       keywords |-> {<<"g","r","a","m","m","a","r">>,
                    <<"v","o","c","a","b","u","l","a","r","y">>,
                    <<"p","r","o","n","u","n","c","i","a","t","i","o","n">>}]>>

\* _extract_topics(content): the topics one of whose keywords occurs in the
\* lower-cased content
ExtractTopics(content) ==
    LET content_lower == Lower(content)
    IN {TopicKeywords[k].topic : k \in
          {j \in DOMAIN TopicKeywords :
              \E w \in TopicKeywords[j].keywords : Contains(content_lower, w)}}

\* ["answer", "solution", "result"]
AnswerKeywords == {<<"a","n","s","w","e","r">>, <<"s","o","l","u","t","i","o","n">>, <<"r","e","s","u","l","t">>}

\* A text of 110 characters whose only question mark is the last one.
LongQuestion ==
    LET ten == <<"a","n","d"," ","t","h","e","n",","," ">>
    IN ten \o ten \o ten \o ten \o ten \o ten \o ten \o ten \o ten \o ten \o
       <<"s","o"," ","w","h","a","t"," ","x","?">>

\* The contents of the messages: no content entry, None, and texts with a
\* question mark, an answer keyword, or both.
MonitorContents ==
    {Absent, PyNone,
     PyStr(<<"I","s"," ","t","h","e"," ","r","e","s","u","l","t"," ","r","i","g","h","t","?">>),
     PyStr(<<"T","h","e"," ","S","O","L","U","T","I","O","N"," ","u","s","e","s"," ","a","l","g","e","b","r","a">>),
     PyStr(LongQuestion)}

\* The name entries of the messages; LAbsent for a dict without one.
MonitorNames == {LAbsent, "Math_Expert", "Info_Agent"}

MonitorMessages == [name : MonitorNames, content : MonitorContents]

\* message.get("name", "Unknown")
AgentNameOf(message) == IF message.name = LAbsent THEN "Unknown" ELSE message.name

\* agent_contributions after the two statements that count the speaker
Contributed(contribs, agent_name) ==
    [a \in DOMAIN contribs \cup {agent_name} |->
        (IF a \in DOMAIN contribs THEN contribs[a] ELSE 0)
        + (IF a = agent_name THEN 1 ELSE 0)]

\* update with the elif turned into a second if
UpdateRecordingBoth(m, message) ==
    LET turn == m.turn_count + 1
        agent_name == AgentNameOf(message)
        counted == [m EXCEPT !.turn_count = turn,
                             !.agent_contributions = Contributed(@, agent_name)]
        content == IF message.content.tag = "absent" THEN PyStr(<<>>)
                   ELSE message.content
    IN IF content.tag # "str"
       THEN [monitor |-> counted, ret |-> "AttributeError"]
       ELSE [monitor |->
               [counted EXCEPT
                  !.topics_discussed = @ \cup ExtractTopics(content.text),
                  !.questions_asked =
                     IF Contains(content.text, <<"?">>)
                     THEN Append(@, [turn |-> turn, agent |-> agent_name,
                                     question |-> Excerpt(content.text)])
                     ELSE @,
                  !.answers_provided =
                     IF \E w \in AnswerKeywords : Contains(Lower(content.text), w)
                     THEN Append(@, [turn |-> turn, agent |-> agent_name,
                                     answer |-> Excerpt(content.text)])
                     ELSE @],
             ret |-> "None"]

\* update(message): the fields afterwards and what the call gives.  The turn
\* and the speaker are counted first; _extract_topics calls content.lower(),
\* which raises for a content that is not a string.
UpdateResult(m, message) ==
    LET turn == m.turn_count + 1
        agent_name == AgentNameOf(message)
        counted == [m EXCEPT !.turn_count = turn,
                             !.agent_contributions = Contributed(@, agent_name)]
        content == IF message.content.tag = "absent" THEN PyStr(<<>>)
                   ELSE message.content
    IN IF content.tag # "str"
       THEN [monitor |-> counted, ret |-> "AttributeError"]
       ELSE LET question == Contains(content.text, <<"?">>)
                answer == \E w \in AnswerKeywords : Contains(Lower(content.text), w)
            IN [monitor |->
                  [counted EXCEPT
                     !.topics_discussed = @ \cup ExtractTopics(content.text),
                     !.questions_asked =
                        IF question
                        THEN Append(@, [turn |-> turn, agent |-> agent_name,
                                        question |-> Excerpt(content.text)])
                        ELSE @,
                     !.answers_provided =
                        IF ~question /\ answer
                        THEN Append(@, [turn |-> turn, agent |-> agent_name,
                                        answer |-> Excerpt(content.text)])
                        ELSE @],
                ret |-> "None"]

\* round(count / turn_count * 100, 2), in hundredths of a percent; no count
\* over a turn_count of the conversations here lies halfway between two
\* hundredths.
ParticipationRate(m) ==
    IF m.turn_count = 0 THEN [a \in {} |-> 0]
    ELSE [a \in DOMAIN m.agent_contributions |->
            (2 * m.agent_contributions[a] * 10000 + m.turn_count)
                \div (2 * m.turn_count)]

\* get_summary()
SummaryOf(m) ==
    [total_turns |-> m.turn_count,
     agent_contributions |-> m.agent_contributions,
     topics_discussed |-> m.topics_discussed,
     questions_count |-> Len(m.questions_asked),
     answers_count |-> Len(m.answers_provided),
     participation_rate |-> ParticipationRate(m)]

MonitorUpdate ==
    /\ monitor_call.updates < MaxMonitorUpdates
    /\ \E message \in MonitorMessages :
          LET r == UpdateResult(monitor, message)
          IN /\ monitor' = r.monitor
             /\ monitor_call' = [op |-> "update", message |-> message,
                                 updates |-> monitor_call.updates + 1,
                                 ret |-> r.ret, summary |-> NoSummary]
    /\ UNCHANGED cmFrame

MonitorGetSummary ==
    /\ monitor_call' = [monitor_call EXCEPT !.op = "get_summary", !.ret = "dict",
                                            !.summary = SummaryOf(monitor)]
    /\ UNCHANGED monitor
    /\ UNCHANGED cmFrame

InitMonitor == monitor = NoMonitor /\ monitor_call = NoMonitorCall /\ CmFrameIdle

NextMonitor == MonitorUpdate \/ MonitorGetSummary
SpecMonitor == InitMonitor /\ [][NextMonitor]_vars

RECURSIVE SumOfCounts(_, _)
SumOfCounts(f, S) ==
    IF S = {} THEN 0
    ELSE LET a == CHOOSE x \in S : TRUE IN f[a] + SumOfCounts(f, S \ {a})

\* The turn numbers of a list of records increase strictly.
TurnsIncrease(list) ==
    \A i, j \in DOMAIN list : i < j => list[i].turn < list[j].turn

TurnsOf(list) == {list[i].turn : i \in DOMAIN list}

\* C30: after any sequence of update calls turn_count is the number of
\* updates and the sum of the per-agent contribution counts, no turn is
\* recorded in both questions_asked and answers_provided, the turn numbers
\* of each list increase strictly, and get_summary reports these counters.
C30_CountersConsistent ==
    /\ monitor.turn_count = monitor_call.updates
    /\ SumOfCounts(monitor.agent_contributions,
                   DOMAIN monitor.agent_contributions) = monitor.turn_count
    /\ TurnsOf(monitor.questions_asked) \cap TurnsOf(monitor.answers_provided) = {}
    /\ TurnsIncrease(monitor.questions_asked)
    /\ TurnsIncrease(monitor.answers_provided)
    /\ monitor_call.op = "get_summary" =>
          /\ monitor_call.summary.total_turns = monitor_call.updates
          /\ monitor_call.summary.questions_count
               + monitor_call.summary.answers_count <= monitor_call.updates

\* C30 witness: the third update was of a message with both a question mark
\* and an answer keyword, after a question, an answer and a contribution of
\* another speaker had been recorded.
C30_Witness ==
    /\ monitor_call.op = "update"
    /\ monitor_call.updates = 3
    /\ monitor_call.message.content = PyStr(<<"I","s"," ","t","h","e"," ","r","e","s","u","l","t"," ","r","i","g","h","t","?">>)
    /\ Len(monitor.questions_asked) = 2
    /\ Len(monitor.answers_provided) = 1
    /\ Cardinality(DOMAIN monitor.agent_contributions) >= 2

=============================================================================
